---- MODULE Spec2Model ----
(***************************************************************************)
(* Verification model of the validation orchestrator of                    *)
(* maiagent_validation_gui.py: process_validation, process_user_questions, *)
(* process_single_question, check_and_retry_failed_questions,              *)
(* retry_user_questions, process_single_question_with_retry and the        *)
(* ConversationManager they use.                                           *)
(*                                                                         *)
(* Granularity: the coroutines run on one asyncio event loop, so a step of *)
(* the model is the code a coroutine runs between two suspension points    *)
(* (semaphore acquire, the network call inside send_message, an            *)
(* asyncio.sleep).  progress_lock is never contended: no await occurs      *)
(* inside its critical sections, so taking it never suspends.  The stop    *)
(* flag is set by the GUI thread (stop_validation) at any moment.          *)
(*                                                                         *)
(* Texts are sequences of tokens.  The tokens the code tests for are kept  *)
(* apart: ERR is the prefix "錯誤:", APIREQ the substring "API 請求在",     *)
(* RETRYFAIL the substring "次重試後仍然失敗", RETRYPFX the prefix          *)
(* "重試失敗:"; every other token is ordinary text.                         *)
(***************************************************************************)
EXTENDS Integers, Sequences, FiniteSets, TLC

\* ---------------------------------------------------------------- bounds
NumRows == 2          \* rows of the input file
MaxUsers == 2         \* distinct questioners in the input
MaxConcurrentBound == 2   \* largest configured concurrency explored

\* ------------------------------------------------------- program constants
ApiDelay == 1         \* self.api_delay default (seconds)
MaxRetries == 3       \* self.max_retries default
RetryCeilingCap == 8  \* min(self.max_retries.get() + 2, 8)

RowIdx == 1..NumRows
Users == 1..MaxUsers
Ids == 1..NumRows
Absent == 0           \* "key not in dict" / Python None for a conversation id

VARIABLES
    rows,               \* validation_data: the loaded input, never reassigned
    maxConcurrent,      \* self.max_concurrent
    enableContext,      \* self.enable_context_combination
    maxRetries,         \* self.max_retries
    apiDelay,           \* self.api_delay (seconds)
    profile,            \* the remote service of this run
    phase,              \* position of process_validation
    stopped,            \* self.validation_stopped
    conversations,      \* conversation_manager.conversations
    context,            \* conversation_manager.questioner_context
    row,                \* mutable fields of every ValidationRow object
    results_dict,       \* results_dict: identifier -> row object (its index)
    completed,          \* self.completed_questions
    semaphore,          \* free slots of the pass's asyncio.Semaphore
    holds,              \* groups that are inside "async with semaphore"
    pc,                 \* position of every questioner-group task
    idx,                \* position of the group's for loop
    failed_groups,      \* failed_user_groups of check_and_retry_failed_questions
    retry_config,       \* retry_max_concurrent, retry_delay, retry_attempts
    timer,              \* seconds of the asyncio.sleep a group is suspended in
    request,            \* the request a group has outstanding
    call,               \* one call of a retrying operation of MaiAgentApiClient
    matcher,            \* one call of an operation of EnhancedTextMatcher
    out,                \* the list process_validation returns
    status,             \* history: state of every record in the record state machine
    mainOutcome,        \* history: how a row's main-pass processing ended
    mainDisp,           \* history: dispatches of a row in the main pass
    retryDisp           \* history: dispatches of a row in the retry pass

config == <<rows, maxConcurrent, enableContext, maxRetries, apiDelay, profile>>
convState == <<conversations, context>>
sched == <<semaphore, holds, pc, idx, failed_groups, retry_config, timer, request>>
hist == <<status, mainOutcome, mainDisp, retryDisp>>
vars == <<rows, maxConcurrent, enableContext, maxRetries, apiDelay, profile, phase,
          stopped, conversations, context, row, results_dict, completed,
          semaphore, holds, pc, idx, failed_groups, retry_config, timer, request,
          call, matcher, out, status, mainOutcome, mainDisp, retryDisp>>

\* ------------------------------------------------------------------ texts
EmptyText == <<>>
NoneText == <<"NONE">>            \* JSON null / Python None in a text field
SkipMarker == <<"SKIPPED">>       \* "跳過驗證（未標記為檢索KM推薦）"
InterruptedMarker == <<"INTERRUPTED">>   \* "未處理（驗證中斷）"

\* bool(text): None and "" are falsy
Truthy(t) == t # EmptyText /\ t # NoneText

\* text.startswith(tok)
StartsWith(t, tok) == Len(t) > 0 /\ t[1] = tok

\* tok in text
Contains(t, tok) == \E k \in 1..Len(t) : t[k] = tok

\* the failure test of check_and_retry_failed_questions on a stored reply
IsFailureReply(t) ==
    /\ Truthy(t)
    /\ \/ StartsWith(t, "ERR")
       \/ Contains(t, "APIREQ")
       \/ Contains(t, "RETRYFAIL")

\* f"錯誤: {str(e)}"
MainFailureMarker(cause) == <<"ERR">> \o cause

\* f"重試失敗: {str(e)}"
RetryFailureMarker(cause) == <<"RETRYPFX">> \o cause

\* str(e) of the exceptions a dispatch can raise
ExhaustedCause == <<"APIREQ", "RETRYFAIL", "cause">>  \* send_message, retries used up
StatusCause == <<"status">>                            \* send_message, non-200 answer
PayloadCause == <<"typeerror">>                        \* malformed citation payload
LenCause == <<"typeerror">>                            \* send_message, len(None) of a null content

\* ------------------------------------------------------------ RAG metrics
ZeroMetrics == [precision |-> 0, recall |-> 0, f1_score |-> 0, hit_rate |-> 0]

\* Metrics of check_rag_enhanced_hit for a one-segment expected reference, in
\* percent.  A chunk is "hit" (text scoring at least the threshold), "miss"
\* (text scoring below it) or "file" (a citation that exposes no text).
TextChunks(chunks) == SelectSeq(chunks, LAMBDA c : c \in {"hit", "miss"})

RagMetrics(chunks) ==
    LET rag == TextChunks(chunks)
        hit_count == IF \E k \in 1..Len(rag) : rag[k] = "hit" THEN 1 ELSE 0
        relevant == hit_count
        p == IF Len(rag) > 0 THEN (relevant * 100) \div Len(rag) ELSE 0
        r == hit_count * 100
        f == IF p + r > 0 THEN (2 * p * r) \div (p + r) ELSE 0
    IN IF Len(chunks) = 0 \/ Len(rag) = 0
       THEN ZeroMetrics
       ELSE [precision |-> p, recall |-> r, f1_score |-> f, hit_rate |-> r]

\* ----------------------------------------------------------------- inputs
RowSeq == [i \in RowIdx |-> i]

\* The files load_csv_data can produce, up to renaming: identifiers are free
\* text and nothing makes them distinct (a row has an identifier of its own or
\* repeats the one of the first row); questioners are numbered in order of
\* first appearance among the flagged rows, and the questioner of an unflagged
\* row, which the code never reads, is left at 1.
UsersBefore(r, i) == {r[j].user : j \in {k \in 1..(i - 1) : r[k].flagged}}

InputRows ==
    {r \in [RowIdx -> [id : Ids, user : Users, flagged : BOOLEAN]] :
        \A i \in RowIdx :
            /\ r[i].id \in {1, i}
            /\ r[i].flagged => \A u \in 1..(r[i].user - 1) : u \in UsersBefore(r, i)
            /\ ~r[i].flagged => r[i].user = 1}

\* The answers the remote service can give to one completion request: the
\* conversationId (Absent, or the one of the questioner's conversation), the
\* content (None, "", ordinary text, or text that begins like an error
\* marker), citationNodes, citations, and whether a citation list is
\* malformed (null, or an entry of the wrong type).
HitPayload == [nodes |-> <<"hit">>, cites |-> <<"file">>, malformed |-> FALSE]
EmptyPayload == [nodes |-> <<>>, cites |-> <<>>, malformed |-> FALSE]
MalformedPayload == [nodes |-> <<"hit">>, cites |-> <<"file">>, malformed |-> TRUE]

Answer(c, t, p) == [returnsConv |-> c, content |-> t, payload |-> p]
Nominal == Answer(TRUE, <<"answer">>, HitPayload)

\* One run talks to one service; the runs explored differ in the way that
\* service deviates from the nominal answer.
Profiles == {"plain", "noconv", "empty", "marker", "broken"}

Responses(pr) ==
    {Nominal} \cup
    CASE pr = "plain" -> {}
      [] pr = "noconv" -> {Answer(FALSE, <<"answer">>, HitPayload)}
      [] pr = "empty" -> {Answer(TRUE, EmptyText, HitPayload),
                          Answer(TRUE, <<"answer">>, EmptyPayload)}
      [] pr = "marker" -> {Answer(TRUE, <<"ERR", "answer">>, HitPayload)}
      [] pr = "broken" -> {Answer(TRUE, NoneText, HitPayload),
                           Answer(TRUE, <<"answer">>, MalformedPayload)}

\* str(e) of the exceptions send_message can raise; the "broken" service
\* always answers, and its answers are what fails
Causes(pr) ==
    CASE pr = "plain" -> {ExhaustedCause, StatusCause}
      [] pr = "broken" -> {}
      [] OTHER -> {ExhaustedCause}

\* questioners with at least one flagged row
GroupCount(r) == Cardinality({r[i].user : i \in {k \in RowIdx : r[k].flagged}})

\* no two rows of r share an identifier
IdsDistinct(r) == \A i, j \in RowIdx : r[i].id = r[j].id => i = j

\* The settings explored: a concurrency bound above the number of groups
\* behaves like one equal to it; context chaining, which is read only while a
\* questioner has no conversation id (after a failure, or after a reply without
\* one), is switched off against the two services that show these cases; files
\* with repeated identifiers are run against the plain service, which both
\* answers and fails.
Settings ==
    {c \in [rows : InputRows, maxConcurrent : 1..MaxConcurrentBound,
            enableContext : BOOLEAN, maxRetries : {MaxRetries},
            apiDelay : {ApiDelay}, profile : Profiles] :
        /\ c.maxConcurrent = 1 \/ c.maxConcurrent <= GroupCount(c.rows)
        /\ ~c.enableContext => c.profile \in {"plain", "noconv"}
        /\ ~IdsDistinct(c.rows) => c.profile = "plain"}

\* ------------------------------------------------------------- grouping
FlaggedOf(u) == SelectSeq(RowSeq, LAMBDA i : rows[i].flagged /\ rows[i].user = u)

\* every group is handed all flagged rows
GroupShared(u) == SelectSeq(RowSeq, LAMBDA i : rows[i].flagged)

GroupReversed(u) == [k \in 1..Len(FlaggedOf(u)) |-> FlaggedOf(u)[Len(FlaggedOf(u)) + 1 - k]]

\* user_groups[user]: the flagged rows of a questioner, in input order
Group(u) == SelectSeq(RowSeq, LAMBDA i : rows[i].flagged /\ rows[i].user = u)

\* the rows of a group task in the current pass
TaskRows(u) == IF phase = "retry" THEN failed_groups[u] ELSE Group(u)

\* row.編號 in results_dict
InResults(i) == results_dict[rows[i].id] # Absent

\* ----------------------------------------------------- conversation manager
RawMessage(q) == [combined |-> FALSE, questions |-> <<q>>]

\* the current question goes out alone whatever the history holds
BuildContextMessageBare(previous, q) == RawMessage(q)

\* ConversationManager.build_context_message
BuildContextMessage(previous, q) ==
    IF previous = <<>>
    THEN RawMessage(q)
    ELSE [combined |-> TRUE, questions |-> Append(previous, q)]

\* message construction of process_single_question
MainMessage(u, q) ==
    IF conversations[u] = Absent /\ enableContext
    THEN BuildContextMessage(context[u], q)
    ELSE RawMessage(q)

\* message construction of process_single_question_with_retry
RetryMessage(u, q) ==
    IF /\ conversations[u] = Absent
       /\ enableContext
       /\ Len(context[u]) > 1
    THEN [combined |-> TRUE,
          questions |-> Append(SubSeq(context[u], 1, Len(context[u]) - 1), q)]
    ELSE RawMessage(q)

\* the question is recorded only where a new conversation begins
AddQuestionIfNewConversation(u, q) ==
    IF conversations[u] = Absent THEN [context EXCEPT ![u] = Append(@, q)] ELSE context

\* one history shared by all questioners
AddQuestionToEveryContext(u, q) == [v \in Users |-> Append(context[v], q)]

\* ConversationManager.add_question_to_context
AddQuestionToContext(u, q) == [context EXCEPT ![u] = Append(@, q)]

\* no call of the text matcher under way
NoMatch == [op |-> "none", state |-> "idle"]

\* no call of the API client under way
NoCall == [op |-> "none", max_retries |-> 0, attempt |-> 0, state |-> "idle",
           history |-> <<>>, seen |-> <<>>, result |-> 0, last |-> "none",
           failure |-> "none", wait |-> 0]

NoRequest == [row |-> 0, message |-> RawMessage(0), conversation |-> Absent,
              max_retries |-> 0]

\* ------------------------------------------------------------ scheduling
\* asyncio.Semaphore: acquire proceeds only while the value is positive
SemAvailableFree(s) == TRUE
SemAvailable(s) == s > 0

\* leaving "async with semaphore" gives the slot back
ReleaseLost(s) == s
Release(s) == s + 1

\* "if self.validation_stopped" polled at the head of a group's loop
StopRequestedNever(s) == FALSE
StopRequested(s) == s

\* "except Exception" inside the for loop of process_user_questions
ExceptCaughtNot == FALSE
ExceptCaught == TRUE

\* "except Exception" inside the for loop of retry_user_questions
RetryExceptCaughtNot == FALSE
RetryExceptCaught == TRUE

\* retry profile of check_and_retry_failed_questions
RetryConcurrencyFull(n) == n
RetryConcurrency(n) == IF n \div 2 >= 1 THEN n \div 2 ELSE 1
RetryDelay(d) == d * 2
RetryAttempts(r) == IF r + 2 <= RetryCeilingCap THEN r + 2 ELSE RetryCeilingCap

\* the three retry settings computed by check_and_retry_failed_questions
RetryConfig(n, d, r) ==
    [concurrency |-> RetryConcurrency(n), delay |-> RetryDelay(d),
     attempts |-> RetryAttempts(r)]

NoRetryConfig == [concurrency |-> 0, delay |-> 0, attempts |-> 0]

\* "await asyncio.gather(*tasks, return_exceptions=True)" has returned
AllTasksEndedUnawaited == TRUE
AllTasksEnded == \A u \in Users : pc[u] \in {"idle", "done"}

\* -------------------------------------------------------------------- Init
\* the application after construction, before any run
Fresh ==
    /\ phase = "init"
    /\ stopped = FALSE
    /\ conversations = [u \in Users |-> Absent]
    /\ context = [u \in Users |-> <<>>]
    /\ row = [i \in RowIdx |->
                [reply |-> EmptyText, metrics |-> ZeroMetrics, retry_info |-> FALSE]]
    /\ results_dict = [k \in Ids |-> Absent]
    /\ completed = 0
    /\ semaphore = 0
    /\ holds = {}
    /\ pc = [u \in Users |-> "idle"]
    /\ idx = [u \in Users |-> 1]
    /\ failed_groups = [u \in Users |-> <<>>]
    /\ retry_config = NoRetryConfig
    /\ timer = [u \in Users |-> 0]
    /\ request = [u \in Users |-> NoRequest]
    /\ out = <<>>
    /\ status = [i \in RowIdx |-> "Pending"]
    /\ mainOutcome = [i \in RowIdx |-> "none"]
    /\ mainDisp = [i \in RowIdx |-> 0]
    /\ retryDisp = [i \in RowIdx |-> 0]

Init ==
    /\ \E c \in Settings :
          /\ rows = c.rows
          /\ maxConcurrent = c.maxConcurrent
          /\ enableContext = c.enableContext
          /\ maxRetries = c.maxRetries
          /\ apiDelay = c.apiDelay
          /\ profile = c.profile
    /\ call = NoCall
    /\ matcher = NoMatch
    /\ Fresh

\* ----------------------------------------------------------- main pass
\* process_validation up to the gather of the group tasks
StartRun ==
    /\ phase = "init"
    /\ conversations' = [u \in Users |-> Absent]
    /\ context' = [u \in Users |-> <<>>]
    /\ row' = [i \in RowIdx |->
                IF rows[i].flagged THEN row[i]
                ELSE [row[i] EXCEPT !.reply = SkipMarker]]
    /\ status' = [i \in RowIdx |-> IF rows[i].flagged THEN status[i] ELSE "Skipped"]
    /\ IF \A i \in RowIdx : ~rows[i].flagged
       THEN /\ phase' = "done"
            /\ out' = RowSeq
            /\ UNCHANGED <<semaphore, pc>>
       ELSE /\ phase' = "main"
            /\ semaphore' = maxConcurrent
            /\ pc' = [u \in Users |-> IF Group(u) # <<>> THEN "wait" ELSE "idle"]
            /\ out' = out
    /\ UNCHANGED <<timer, call, matcher, config, stopped, results_dict, completed, holds, idx,
                   failed_groups, retry_config, request, mainOutcome, mainDisp, retryDisp>>

\* process_user_questions: "async with semaphore"
Acquire(u) ==
    /\ phase = "main"
    /\ pc[u] = "wait"
    /\ SemAvailable(semaphore)
    /\ semaphore' = semaphore - 1
    /\ holds' = holds \cup {u}
    /\ pc' = [pc EXCEPT ![u] = "run"]
    /\ idx' = [idx EXCEPT ![u] = 1]
    /\ UNCHANGED <<timer, call, matcher, config, phase, stopped, convState, row, results_dict, completed,
                   failed_groups, retry_config, request, out, hist>>

\* process_user_questions: the loop ends, or breaks on the stop flag; the slot
\* is released on leaving "async with"
MainFinish(u) ==
    /\ phase = "main"
    /\ pc[u] = "run"
    /\ idx[u] > Len(Group(u)) \/ StopRequested(stopped)
    /\ semaphore' = Release(semaphore)
    /\ holds' = holds \ {u}
    /\ pc' = [pc EXCEPT ![u] = "done"]
    /\ UNCHANGED <<timer, call, matcher, config, phase, stopped, convState, row, results_dict, completed,
                   idx, failed_groups, retry_config, request, out, hist>>

\* process_user_questions polls the flag and calls process_single_question,
\* which builds the message, records the question and sends the request
MainDispatch(u) ==
    /\ phase = "main"
    /\ pc[u] = "run"
    /\ idx[u] <= Len(Group(u))
    /\ ~StopRequested(stopped)
    /\ LET i == Group(u)[idx[u]] IN
        /\ request' = [request EXCEPT ![u] =
                          [row |-> i, message |-> MainMessage(u, i),
                           conversation |-> conversations[u],
                           max_retries |-> maxRetries]]
        /\ context' = AddQuestionToContext(u, i)
        /\ mainDisp' = [mainDisp EXCEPT ![i] = @ + 1]
        /\ status' = [status EXCEPT ![i] = "Dispatched"]
    /\ pc' = [pc EXCEPT ![u] = "inflight"]
    /\ UNCHANGED <<timer, call, matcher, config, phase, stopped, conversations, row, results_dict,
                   completed, semaphore, holds, idx, failed_groups, retry_config, out,
                   mainOutcome, retryDisp>>

\* "self.completed_questions += 1" inside a progress_lock section
CountCompletedLost(c) == c
CountCompleted(c) == c + 1

\* the fields the except handlers write into a failed row
RowFailed(r, marker) == [r EXCEPT !.reply = marker, !.metrics = ZeroMetrics]

\* process_user_questions: an exception of row i reaches "except Exception";
\* rowBase, dictBase and compBase are the values at the raise
MainException(u, i, cause, rowBase, dictBase, compBase) ==
    IF ExceptCaught
    THEN /\ row' = [rowBase EXCEPT ![i] = RowFailed(@, MainFailureMarker(cause))]
         /\ results_dict' = [dictBase EXCEPT ![rows[i].id] = i]
         /\ completed' = CountCompleted(compBase)
         /\ status' = [status EXCEPT ![i] = "FailedRetryable"]
         /\ mainOutcome' = [mainOutcome EXCEPT ![i] = "fail"]
         /\ idx' = [idx EXCEPT ![u] = @ + 1]
         /\ pc' = [pc EXCEPT ![u] = "run"]
         /\ UNCHANGED <<semaphore, holds, timer>>
    ELSE /\ row' = rowBase
         /\ results_dict' = dictBase
         /\ completed' = compBase
         /\ pc' = [pc EXCEPT ![u] = "done"]
         /\ semaphore' = Release(semaphore)
         /\ holds' = holds \ {u}
         /\ UNCHANGED <<status, mainOutcome, idx, timer>>

\* send_message raises (retries used up, or a non-200 answer)
MainRaise(u, cause) ==
    /\ phase = "main"
    /\ pc[u] = "inflight"
    /\ request' = [request EXCEPT ![u] = NoRequest]
    /\ MainException(u, request[u].row, cause, row, results_dict, completed)
    /\ UNCHANGED <<config, call, matcher, phase, stopped, convState, failed_groups, retry_config, out,
                   mainDisp, retryDisp>>

\* The service answers 200.  A null content makes send_message raise while it
\* logs the answer; otherwise process_single_question stores the conversation
\* id and the reply, computes the metrics from citation_nodes and sleeps
\* api_delay.
MainReply(u, resp) ==
    /\ phase = "main"
    /\ pc[u] = "inflight"
    /\ apiDelay > 0
    /\ request' = [request EXCEPT ![u] = NoRequest]
    /\ LET i == request[u].row IN
        IF resp.content = NoneText
        THEN /\ conversations' = conversations
             /\ MainException(u, i, LenCause, row, results_dict, completed)
        ELSE /\ conversations' = [conversations EXCEPT ![u] =
                                     IF resp.returnsConv THEN u ELSE Absent]
             /\ IF resp.payload.malformed
                THEN MainException(u, i, PayloadCause,
                                   [row EXCEPT ![i].reply = resp.content],
                                   results_dict, completed)
                ELSE /\ row' = [row EXCEPT ![i].reply = resp.content,
                                           ![i].metrics = RagMetrics(resp.payload.nodes)]
                     /\ pc' = [pc EXCEPT ![u] = "sleep"]
                     /\ timer' = [timer EXCEPT ![u] = apiDelay]
                     /\ UNCHANGED <<results_dict, completed, semaphore, holds, idx,
                                    status, mainOutcome>>
    /\ UNCHANGED <<config, call, matcher, phase, stopped, context, failed_groups, retry_config, out,
                   mainDisp, retryDisp>>

\* the delay ends: process_user_questions stores the result and counts it under
\* progress_lock
MainWake(u) ==
    /\ phase = "main"
    /\ pc[u] = "sleep"
    /\ LET i == Group(u)[idx[u]] IN
        /\ results_dict' = [results_dict EXCEPT ![rows[i].id] = i]
        /\ completed' = CountCompleted(completed)
        /\ status' = [status EXCEPT ![i] = "Succeeded"]
        /\ mainOutcome' = [mainOutcome EXCEPT ![i] = "ok"]
        /\ idx' = [idx EXCEPT ![u] = @ + 1]
        /\ pc' = [pc EXCEPT ![u] = "run"]
        /\ timer' = [timer EXCEPT ![u] = 0]
        /\ UNCHANGED <<row, semaphore, holds>>
    /\ UNCHANGED <<config, call, matcher, phase, stopped, convState, failed_groups, retry_config, request,
                   out, mainDisp, retryDisp>>

\* ----------------------------------------------------------- retry pass
\* the failure test of check_and_retry_failed_questions on one flagged row
IsFailedQuestion(i) ==
    IF InResults(i)
    THEN IsFailureReply(row[results_dict[rows[i].id]].reply)
    ELSE TRUE

\* check_and_retry_failed_questions up to the gather of the retry tasks
CheckAndRetry ==
    /\ phase = "main"
    /\ AllTasksEnded
    /\ LET failed == {i \in RowIdx : rows[i].flagged /\ IsFailedQuestion(i)}
           groups == [u \in Users |->
                        SelectSeq(RowSeq, LAMBDA i : i \in failed /\ rows[i].user = u)]
       IN IF stopped \/ failed = {}
          THEN /\ phase' = "assemble"
               /\ UNCHANGED <<semaphore, pc, failed_groups, retry_config>>
          ELSE /\ phase' = "retry"
               /\ failed_groups' = groups
               /\ retry_config' = RetryConfig(maxConcurrent, apiDelay, maxRetries)
               /\ semaphore' = RetryConfig(maxConcurrent, apiDelay, maxRetries).concurrency
               /\ pc' = [u \in Users |-> IF groups[u] # <<>> THEN "rwait" ELSE "idle"]
    /\ UNCHANGED <<timer, call, matcher, config, stopped, convState, row, results_dict, completed,
                   holds, idx, request, out, hist>>

\* retry_user_questions: "async with semaphore"
RetryAcquire(u) ==
    /\ phase = "retry"
    /\ pc[u] = "rwait"
    /\ SemAvailable(semaphore)
    /\ semaphore' = semaphore - 1
    /\ holds' = holds \cup {u}
    /\ pc' = [pc EXCEPT ![u] = "rrun"]
    /\ idx' = [idx EXCEPT ![u] = 1]
    /\ UNCHANGED <<timer, call, matcher, config, phase, stopped, convState, row, results_dict, completed,
                   failed_groups, retry_config, request, out, hist>>

\* retry_user_questions: returns or breaks on the stop flag, or the loop ends
RetryFinish(u) ==
    /\ phase = "retry"
    /\ pc[u] = "rrun"
    /\ idx[u] > Len(failed_groups[u]) \/ StopRequested(stopped)
    /\ semaphore' = Release(semaphore)
    /\ holds' = holds \ {u}
    /\ pc' = [pc EXCEPT ![u] = "done"]
    /\ UNCHANGED <<timer, call, matcher, config, phase, stopped, convState, row, results_dict, completed,
                   idx, failed_groups, retry_config, request, out, hist>>

\* retry_user_questions clears the row's error state and calls
\* process_single_question_with_retry, which builds the message and sends it
RetryDispatch(u) ==
    /\ phase = "retry"
    /\ pc[u] = "rrun"
    /\ idx[u] <= Len(failed_groups[u])
    /\ ~StopRequested(stopped)
    /\ LET i == failed_groups[u][idx[u]] IN
        /\ row' = [row EXCEPT ![i].reply = EmptyText]
        /\ request' = [request EXCEPT ![u] =
                          [row |-> i, message |-> RetryMessage(u, i),
                           conversation |-> conversations[u],
                           max_retries |-> retry_config.attempts]]
        /\ retryDisp' = [retryDisp EXCEPT ![i] = @ + 1]
        /\ status' = [status EXCEPT ![i] = "RetryDispatched"]
    /\ pc' = [pc EXCEPT ![u] = "rinflight"]
    /\ UNCHANGED <<timer, call, matcher, config, phase, stopped, convState, results_dict, completed,
                   semaphore, holds, idx, failed_groups, retry_config, out, mainOutcome, mainDisp>>

\* the wait between two rows of a retry group, skipped once stop is requested
AfterRetryRow(u) ==
    IF stopped
    THEN /\ idx' = [idx EXCEPT ![u] = @ + 1]
         /\ pc' = [pc EXCEPT ![u] = "rrun"]
         /\ timer' = [timer EXCEPT ![u] = 0]
    ELSE /\ idx' = idx
         /\ pc' = [pc EXCEPT ![u] = "rgap"]
         /\ timer' = [timer EXCEPT ![u] = retry_config.delay]

\* retry_user_questions: an exception of row i reaches "except Exception"
RetryException(u, i, cause, rowBase, dictBase) ==
    IF RetryExceptCaught
    THEN /\ row' = [rowBase EXCEPT ![i] = RowFailed(@, RetryFailureMarker(cause))]
         /\ results_dict' = [dictBase EXCEPT ![rows[i].id] = i]
         /\ status' = [status EXCEPT ![i] = "TerminallyFailed"]
         /\ AfterRetryRow(u)
         /\ UNCHANGED <<semaphore, holds>>
    ELSE /\ row' = rowBase
         /\ results_dict' = dictBase
         /\ pc' = [pc EXCEPT ![u] = "done"]
         /\ semaphore' = Release(semaphore)
         /\ holds' = holds \ {u}
         /\ timer' = [timer EXCEPT ![u] = 0]
         /\ UNCHANGED <<status, idx>>

\* send_message raises in the retry pass
RetryRaise(u, cause) ==
    /\ phase = "retry"
    /\ pc[u] = "rinflight"
    /\ request' = [request EXCEPT ![u] = NoRequest]
    /\ RetryException(u, request[u].row, cause, row, results_dict)
    /\ UNCHANGED <<config, call, matcher, phase, stopped, convState, completed, failed_groups, retry_config,
                   out, mainOutcome, mainDisp, retryDisp>>

\* The service answers 200 in the retry pass.  A null content makes
\* send_message raise; otherwise process_single_question_with_retry stores a
\* new conversation id, computes the metrics from citations, stores the reply
\* and sleeps the retry delay.
RetryReply(u, resp) ==
    /\ phase = "retry"
    /\ pc[u] = "rinflight"
    /\ request' = [request EXCEPT ![u] = NoRequest]
    /\ LET i == request[u].row
           filled == [row EXCEPT ![i].reply = resp.content,
                                 ![i].metrics = RagMetrics(resp.payload.cites)]
       IN IF resp.content = NoneText
          THEN /\ conversations' = conversations
               /\ RetryException(u, i, LenCause, row, results_dict)
          ELSE /\ conversations' = [conversations EXCEPT ![u] =
                                       IF request[u].conversation = Absent
                                          /\ resp.returnsConv
                                       THEN u ELSE @]
               /\ IF resp.payload.malformed
                  THEN RetryException(u, i, PayloadCause, filled, results_dict)
                  ELSE /\ row' = filled
                       /\ pc' = [pc EXCEPT ![u] = "rsleep"]
                       /\ timer' = [timer EXCEPT ![u] = retry_config.delay]
                       /\ UNCHANGED <<results_dict, semaphore, holds, idx, status>>
    /\ UNCHANGED <<config, call, matcher, phase, stopped, context, completed, failed_groups, retry_config, out,
                   mainOutcome, mainDisp, retryDisp>>

\* the delay ends: retry_user_questions marks and stores the result under
\* progress_lock
RetryWake(u) ==
    /\ phase = "retry"
    /\ pc[u] = "rsleep"
    /\ LET i == failed_groups[u][idx[u]] IN
        /\ row' = [row EXCEPT ![i].retry_info = TRUE]
        /\ results_dict' = [results_dict EXCEPT ![rows[i].id] = i]
        /\ status' = [status EXCEPT ![i] = "RetrySucceeded"]
        /\ AfterRetryRow(u)
        /\ UNCHANGED <<semaphore, holds>>
    /\ UNCHANGED <<config, call, matcher, phase, stopped, convState, completed, failed_groups, retry_config,
                   request, out, mainOutcome, mainDisp, retryDisp>>

\* the wait between two rows of a retry group ends
RetryGapEnd(u) ==
    /\ phase = "retry"
    /\ pc[u] = "rgap"
    /\ idx' = [idx EXCEPT ![u] = @ + 1]
    /\ pc' = [pc EXCEPT ![u] = "rrun"]
    /\ timer' = [timer EXCEPT ![u] = 0]
    /\ UNCHANGED <<config, call, matcher, phase, stopped, convState, row, results_dict, completed,
                   semaphore, holds, failed_groups, retry_config, request, out, hist>>

\* ------------------------------------------------------------ final output
\* the fields process_validation writes into a row it finds missing from
\* results_dict
Unprocessed(i) ==
    IF ~rows[i].flagged
    THEN [row[i] EXCEPT !.metrics = ZeroMetrics]
    ELSE [row[i] EXCEPT !.reply = IF Truthy(@) THEN @ ELSE InterruptedMarker,
                        !.metrics = ZeroMetrics]

\* process_validation: both passes are over, the result list is put together
\* in input order
Assemble ==
    /\ phase = "assemble" \/ (phase = "retry" /\ AllTasksEnded)
    /\ out' = [i \in RowIdx |-> IF InResults(i) THEN results_dict[rows[i].id] ELSE i]
    /\ row' = [i \in RowIdx |-> IF InResults(i) THEN row[i] ELSE Unprocessed(i)]
    /\ phase' = "done"
    /\ UNCHANGED <<config, call, matcher, stopped, convState, results_dict, completed, sched, hist>>

\* the counter the loop of calculate_statistics adds a record to
RetryStatOf(r) ==
    IF ~Truthy(r.reply) THEN "none"
    ELSE IF StartsWith(r.reply, "ERR") \/ Contains(r.reply, "APIREQ")
         THEN "original_failed"
    ELSE IF StartsWith(r.reply, "RETRYPFX") THEN "retry_failed"
    ELSE IF r.retry_info THEN "retry_success"
    ELSE "none"

\* the retry counters of calculate_statistics over the list of results
CalculateStatistics(results) ==
    LET counted(c) == Cardinality({k \in 1..Len(results) : RetryStatOf(row[results[k]]) = c})
    IN [retry_success_count |-> counted("retry_success"),
        retry_failed_count |-> counted("retry_failed"),
        original_failed_count |-> counted("original_failed")]

\* stop_validation, called by the GUI thread while the run is under way
Stop ==
    /\ phase # "done"
    /\ ~stopped
    /\ stopped' = TRUE
    /\ UNCHANGED <<config, call, matcher, phase, convState, row, results_dict, completed, sched,
                   out, hist>>

Next ==
    \/ StartRun
    \/ Stop
    \/ \E u \in Users : Acquire(u)
    \/ \E u \in Users : MainDispatch(u)
    \/ \E u \in Users, resp \in Responses(profile) : MainReply(u, resp)
    \/ \E u \in Users, cause \in Causes(profile) : MainRaise(u, cause)
    \/ \E u \in Users : MainWake(u)
    \/ \E u \in Users : MainFinish(u)
    \/ CheckAndRetry
    \/ \E u \in Users : RetryAcquire(u)
    \/ \E u \in Users : RetryDispatch(u)
    \/ \E u \in Users, resp \in Responses(profile) : RetryReply(u, resp)
    \/ \E u \in Users, cause \in Causes(profile) : RetryRaise(u, cause)
    \/ \E u \in Users : RetryWake(u)
    \/ \E u \in Users : RetryGapEnd(u)
    \/ \E u \in Users : RetryFinish(u)
    \/ Assemble

Spec == Init /\ [][Next]_vars

\* The steps of the run itself: everything but the user's stop request.
RunStep ==
    \/ StartRun
    \/ \E u \in Users : Acquire(u)
    \/ \E u \in Users : MainDispatch(u)
    \/ \E u \in Users, resp \in Responses(profile) : MainReply(u, resp)
    \/ \E u \in Users, cause \in Causes(profile) : MainRaise(u, cause)
    \/ \E u \in Users : MainWake(u)
    \/ \E u \in Users : MainFinish(u)
    \/ CheckAndRetry
    \/ \E u \in Users : RetryAcquire(u)
    \/ \E u \in Users : RetryDispatch(u)
    \/ \E u \in Users, resp \in Responses(profile) : RetryReply(u, resp)
    \/ \E u \in Users, cause \in Causes(profile) : RetryRaise(u, cause)
    \/ \E u \in Users : RetryWake(u)
    \/ \E u \in Users : RetryGapEnd(u)
    \/ \E u \in Users : RetryFinish(u)
    \/ Assemble

\* The event loop runs a task that is ready, a sleep ends, and a remote call
\* returns or raises: while a step of the run is possible, one is taken.  The
\* user may or may not ask for a stop.
FairSpec == Init /\ [][Next]_vars /\ WF_vars(RunStep)

\* ------------------------------------------------- the retry settings
\* The retry settings of check_and_retry_failed_questions over everything the
\* sliders of the settings tab allow: concurrency 1..20, attempts 1..10, delay
\* 0..5 seconds (whole seconds here).
ConcurrentMax == 20
RetriesMax == 10
DelayMax == 5

NoRows == [i \in RowIdx |-> [id |-> i, user |-> 1, flagged |-> FALSE]]

ProfileInit ==
    /\ rows = NoRows
    /\ maxConcurrent \in 1..ConcurrentMax
    /\ maxRetries \in 1..RetriesMax
    /\ apiDelay \in 0..DelayMax
    /\ enableContext = TRUE
    /\ profile = "plain"
    /\ call = NoCall
    /\ matcher = NoMatch
    /\ Fresh

\* lines 2972-2974 on their own
ComputeRetryConfig ==
    /\ retry_config = NoRetryConfig
    /\ retry_config' = RetryConfig(maxConcurrent, apiDelay, maxRetries)
    /\ UNCHANGED <<config, call, matcher, phase, stopped, convState, row, results_dict, completed,
                   semaphore, holds, pc, idx, failed_groups, timer, request, out,
                   hist>>

ProfileNext == ComputeRetryConfig

ProfileSpec == ProfileInit /\ [][ProfileNext]_vars

\* ------------------------------------------------------ the API client
\* One call of send_message or of download_knowledge_base_file: the loop
\* "for attempt in range(max_retries)".  history lists what the attempts made
\* so far met; result is the answer returned, named by the number of the
\* attempt that fetched it.
MaxCallRetries == 3

Ops == {"send", "download"}

\* HTTP status codes; the three the code names as server errors worth a retry
StatusOk == 200
StatusNotFound == 404
StatusServerError == 500
TransientStatus == {502, 503, 504}

\* What the service does to one attempt: fault is the exception the request
\* raises ("none" when a response arrives), status the status of the response
\* (of the file record for a download); for a download whose record arrives
\* with 200, url tells whether the record has a "file" URL, file_status is
\* its "status" field, and fetch is what the GET of that URL meets (a status,
\* or 0 for a timeout).
Met(f, st, url, fs, fetch) ==
    [fault |-> f, status |-> st, url |-> url, file_status |-> fs, fetch |-> fetch]

FileStatuses == {"completed", "deleting", "failed"}
Unretrievable == {"deleting", "failed"}
FetchTimeout == 0

\* send_message: a response with some status, a fault of the caught network
\* classes ("reset" when its text names a connection reset), or any other
\* exception (a null content among them)
SendMeets ==
    {Met("none", st, TRUE, "completed", StatusOk) :
        st \in {StatusOk, StatusServerError} \cup TransientStatus}
    \cup {Met(f, 0, TRUE, "completed", StatusOk) : f \in {"fault", "reset", "error"}}

\* download_knowledge_base_file: the record request times out or fails, or
\* answers with a status; a 200 record has or lacks a URL and carries a file
\* status; the GET of the URL answers with a status or times out
DownloadMeets ==
    {Met(f, 0, TRUE, "completed", StatusOk) : f \in {"timeout", "error"}}
    \cup {Met("none", st, TRUE, "completed", StatusOk) :
            st \in {StatusNotFound, StatusServerError} \cup TransientStatus}
    \cup {Met("none", StatusOk, FALSE, fs, StatusOk) : fs \in FileStatuses}
    \cup {Met("none", StatusOk, TRUE, fs, StatusOk) : fs \in Unretrievable}
    \cup {Met("none", StatusOk, TRUE, "completed", st) :
            st \in {StatusOk, StatusNotFound, StatusServerError, FetchTimeout}
                   \cup TransientStatus}

\* how one attempt of send_message ends: a 200 answer is returned, any other
\* status raises a plain Exception, which the except clause does not name
SendOutcome(m) ==
    CASE m.fault # "none" -> m.fault
      [] m.status = StatusOk -> "ok"
      [] OTHER -> "status"

\* how one attempt of download_knowledge_base_file ends, in the order of the
\* code: the record's status, then its URL, then its file status, then the GET
DownloadOutcome(m) ==
    CASE m.fault # "none" -> m.fault
      [] m.status = StatusNotFound -> "absent"
      [] m.status \in TransientStatus -> "transient"
      [] m.status # StatusOk -> "error"
      [] ~m.url -> "error"
      [] m.file_status \in Unretrievable -> "unretrievable"
      [] m.fetch = StatusOk -> "ok"
      [] m.fetch = FetchTimeout -> "timeout"
      [] m.fetch \in TransientStatus -> "transient"
      [] OTHER -> "error"

NewCall(op, m) == [NoCall EXCEPT !.op = op, !.max_retries = m, !.state = "attempting"]

\* "attempt < max_retries - 1"
AttemptsRemainOneMore(a, m) == a < m
AttemptsRemain(a, m) == a < m - 1

\* wait_time of send_message after failed attempt a
SendBackoffPlain(a, o) == 2 ^ a
SendBackoff(a, o) == IF o = "reset" THEN (2 ^ a) * 2 ELSE 2 ^ a

\* the sleep that opens attempt a > 0 of download_knowledge_base_file
DownloadBackoff(a) == 2 ^ a

Returned(a, h, m) ==
    [call EXCEPT !.state = "returned", !.history = h, !.result = a + 1,
                 !.seen = Append(@, m)]

Raised(h, o, kind, m) ==
    [call EXCEPT !.state = "raised", !.history = h, !.last = o, !.failure = kind,
                 !.seen = Append(@, m)]

Waiting(a, h, o, w, m) ==
    [call EXCEPT !.state = "waiting", !.history = h, !.last = o, !.attempt = a + 1,
                 !.wait = w, !.seen = Append(@, m)]

ClientInit ==
    /\ rows = NoRows
    /\ maxConcurrent = 1
    /\ maxRetries = MaxRetries
    /\ apiDelay = ApiDelay
    /\ enableContext = TRUE
    /\ profile = "plain"
    /\ call \in {NewCall(op, m) : op \in Ops, m \in 1..MaxCallRetries}
    /\ matcher = NoMatch
    /\ Fresh

\* one iteration of the loop of send_message
SendAttempt(m) ==
    /\ call.op = "send"
    /\ call.state = "attempting"
    /\ LET a == call.attempt
           o == SendOutcome(m)
           h == Append(call.history, o)
       IN call' =
            CASE o = "ok" -> Returned(a, h, m)
              [] o \in {"status", "error"} -> Raised(h, o, "propagated", m)
              [] o \in {"fault", "reset"} ->
                    IF AttemptsRemain(a, call.max_retries)
                    THEN Waiting(a, h, o, SendBackoff(a, o), m)
                    ELSE Raised(h, o, "exhausted", m)
    /\ UNCHANGED <<config, matcher, phase, stopped, convState, row, results_dict, completed,
                   sched, out, hist>>

\* one iteration of the loop of download_knowledge_base_file
DownloadAttempt(m) ==
    /\ call.op = "download"
    /\ call.state = "attempting"
    /\ LET a == call.attempt
           o == DownloadOutcome(m)
           h == Append(call.history, o)
       IN call' =
            CASE o = "ok" -> Returned(a, h, m)
              [] o \in {"absent", "unretrievable"} -> Raised(h, o, "final", m)
              [] o \in {"transient", "timeout", "error"} ->
                    IF AttemptsRemain(a, call.max_retries)
                    THEN Waiting(a, h, o, DownloadBackoff(a + 1), m)
                    ELSE Raised(h, o, "exhausted", m)
    /\ UNCHANGED <<config, matcher, phase, stopped, convState, row, results_dict, completed,
                   sched, out, hist>>

\* the asyncio.sleep between two attempts ends
WaitEnd ==
    /\ call.state = "waiting"
    /\ call' = [call EXCEPT !.state = "attempting", !.wait = 0]
    /\ UNCHANGED <<config, matcher, phase, stopped, convState, row, results_dict, completed,
                   sched, out, hist>>

ClientNext ==
    \/ \E m \in SendMeets : SendAttempt(m)
    \/ \E m \in DownloadMeets : DownloadAttempt(m)
    \/ WaitEnd

ClientSpec == ClientInit /\ [][ClientNext]_vars

\* ------------------------------------------------- the retest run
\* retry_failed_from_csv and process_retry_validation: the failed rows of a
\* result file are asked again, in the same session as earlier runs.  rows is
\* failed_data; every row of it is retested.
RetestMarker(cause) == <<"RETESTPFX">> \o cause     \* f"重測仍失敗: {str(e)}"
RetestUnfinished == <<"RETESTUNFINISHED">>          \* "重測未完成（可能被停止）"
RetestCeilingCap == 10                              \* min(max_retries + 3, 10)

RetestAttempts(r) == IF r + 3 <= RetestCeilingCap THEN r + 3 ELSE RetestCeilingCap

\* What an earlier run of the session leaves in the conversation manager for
\* every questioner: nothing, a conversation id and the question asked, or no
\* conversation id and the questions asked.  Conversation ids and questions of
\* the earlier run are numbered apart from those of the retest run.
OldConversation(u) == MaxUsers + u
OldQuestions == <<NumRows + 1, NumRows + 2>>

LeftoverKinds == {"none", "conversed", "failed"}

Leftover(kind, u) ==
    CASE kind = "none" -> [conversation |-> Absent, questions |-> <<>>]
      [] kind = "conversed" -> [conversation |-> OldConversation(u),
                                questions |-> SubSeq(OldQuestions, 1, 1)]
      [] kind = "failed" -> [conversation |-> Absent, questions |-> OldQuestions]

RetestServices == {"plain", "noconv"}

RetestInit ==
    /\ rows \in {r \in InputRows : IdsDistinct(r) /\ \A i \in RowIdx : r[i].flagged}
    /\ maxConcurrent \in 1..MaxConcurrentBound
    /\ maxRetries = MaxRetries
    /\ apiDelay = ApiDelay
    /\ enableContext \in BOOLEAN
    /\ profile \in RetestServices
    /\ call = NoCall
    /\ matcher = NoMatch
    /\ phase = "init"
    /\ stopped = FALSE
    /\ \E kind \in LeftoverKinds :
          /\ conversations = [u \in Users |-> Leftover(kind, u).conversation]
          /\ context = [u \in Users |-> Leftover(kind, u).questions]
    /\ row = [i \in RowIdx |->
                [reply |-> MainFailureMarker(ExhaustedCause), metrics |-> ZeroMetrics,
                 retry_info |-> FALSE]]
    /\ results_dict = [k \in Ids |-> Absent]
    /\ completed = 0
    /\ semaphore = 0
    /\ holds = {}
    /\ pc = [u \in Users |-> "idle"]
    /\ idx = [u \in Users |-> 1]
    /\ failed_groups = [u \in Users |-> <<>>]
    /\ retry_config = NoRetryConfig
    /\ timer = [u \in Users |-> 0]
    /\ request = [u \in Users |-> NoRequest]
    /\ out = <<>>
    /\ status = [i \in RowIdx |-> "FailedRetryable"]
    /\ mainOutcome = [i \in RowIdx |-> "none"]
    /\ mainDisp = [i \in RowIdx |-> 0]
    /\ retryDisp = [i \in RowIdx |-> 0]

\* process_retry_validation up to the gather of the group tasks
RetestStart ==
    /\ phase = "init"
    /\ phase' = "retest"
    /\ failed_groups' = [u \in Users |->
                            SelectSeq(RowSeq, LAMBDA i : rows[i].user = u)]
    /\ retry_config' = [concurrency |-> RetryConcurrency(maxConcurrent),
                        delay |-> RetryDelay(apiDelay),
                        attempts |-> RetestAttempts(maxRetries)]
    /\ semaphore' = RetryConcurrency(maxConcurrent)
    /\ pc' = [u \in Users |->
                IF \E i \in RowIdx : rows[i].user = u THEN "rwait" ELSE "idle"]
    /\ UNCHANGED <<config, call, matcher, stopped, convState, row, results_dict, completed,
                   holds, idx, timer, request, out, hist>>

\* process_retry_user_questions: "async with semaphore"
RetestAcquire(u) ==
    /\ phase = "retest"
    /\ pc[u] = "rwait"
    /\ SemAvailable(semaphore)
    /\ semaphore' = semaphore - 1
    /\ holds' = holds \cup {u}
    /\ pc' = [pc EXCEPT ![u] = "rrun"]
    /\ idx' = [idx EXCEPT ![u] = 1]
    /\ UNCHANGED <<config, call, matcher, phase, stopped, convState, row, results_dict,
                   completed, failed_groups, retry_config, timer, request, out, hist>>

\* process_retry_user_questions: returns or breaks on the stop flag, or the
\* loop ends
RetestFinish(u) ==
    /\ phase = "retest"
    /\ pc[u] = "rrun"
    /\ idx[u] > Len(failed_groups[u]) \/ StopRequested(stopped)
    /\ semaphore' = Release(semaphore)
    /\ holds' = holds \ {u}
    /\ pc' = [pc EXCEPT ![u] = "done"]
    /\ UNCHANGED <<config, call, matcher, phase, stopped, convState, row, results_dict,
                   completed, idx, failed_groups, retry_config, timer, request, out,
                   hist>>

\* process_retry_user_questions calls process_single_question_with_retry,
\* which builds the message and sends it
RetestDispatch(u) ==
    /\ phase = "retest"
    /\ pc[u] = "rrun"
    /\ idx[u] <= Len(failed_groups[u])
    /\ ~StopRequested(stopped)
    /\ LET i == failed_groups[u][idx[u]] IN
        /\ request' = [request EXCEPT ![u] =
                          [row |-> i, message |-> RetryMessage(u, i),
                           conversation |-> conversations[u],
                           max_retries |-> retry_config.attempts]]
        /\ retryDisp' = [retryDisp EXCEPT ![i] = @ + 1]
        /\ status' = [status EXCEPT ![i] = "RetryDispatched"]
    /\ pc' = [pc EXCEPT ![u] = "rinflight"]
    /\ UNCHANGED <<config, call, matcher, phase, stopped, convState, row, results_dict,
                   completed, semaphore, holds, idx, failed_groups, retry_config,
                   timer, out, mainOutcome, mainDisp>>

\* the wait between two rows of a retest group, skipped once stop is requested
AfterRetestRow(u) ==
    IF stopped
    THEN /\ idx' = [idx EXCEPT ![u] = @ + 1]
         /\ pc' = [pc EXCEPT ![u] = "rrun"]
         /\ timer' = [timer EXCEPT ![u] = 0]
    ELSE /\ idx' = idx
         /\ pc' = [pc EXCEPT ![u] = "rgap"]
         /\ timer' = [timer EXCEPT ![u] = retry_config.delay]

\* process_retry_user_questions: an exception of row i reaches "except Exception"
RetestException(u, i, cause, rowBase) ==
    /\ row' = [rowBase EXCEPT ![i] = RowFailed(@, RetestMarker(cause))]
    /\ results_dict' = [results_dict EXCEPT ![rows[i].id] = i]
    /\ completed' = CountCompleted(completed)
    /\ status' = [status EXCEPT ![i] = "TerminallyFailed"]
    /\ AfterRetestRow(u)

\* send_message raises in the retest run
RetestRaise(u, cause) ==
    /\ phase = "retest"
    /\ pc[u] = "rinflight"
    /\ request' = [request EXCEPT ![u] = NoRequest]
    /\ RetestException(u, request[u].row, cause, row)
    /\ UNCHANGED <<config, call, matcher, phase, stopped, convState, semaphore, holds,
                   failed_groups, retry_config, out, mainOutcome, mainDisp, retryDisp>>

\* the service answers 200 in the retest run
RetestReply(u, resp) ==
    /\ phase = "retest"
    /\ pc[u] = "rinflight"
    /\ request' = [request EXCEPT ![u] = NoRequest]
    /\ LET i == request[u].row
           filled == [row EXCEPT ![i].reply = resp.content,
                                 ![i].metrics = RagMetrics(resp.payload.cites)]
       IN IF resp.content = NoneText
          THEN /\ conversations' = conversations
               /\ RetestException(u, i, LenCause, row)
          ELSE /\ conversations' = [conversations EXCEPT ![u] =
                                       IF request[u].conversation = Absent
                                          /\ resp.returnsConv
                                       THEN u ELSE @]
               /\ IF resp.payload.malformed
                  THEN RetestException(u, i, PayloadCause, filled)
                  ELSE /\ row' = filled
                       /\ pc' = [pc EXCEPT ![u] = "rsleep"]
                       /\ timer' = [timer EXCEPT ![u] = retry_config.delay]
                       /\ UNCHANGED <<results_dict, completed, idx, status>>
    /\ UNCHANGED <<config, call, matcher, phase, stopped, context, semaphore, holds,
                   failed_groups, retry_config, out, mainOutcome, mainDisp, retryDisp>>

\* the delay ends: process_retry_user_questions marks, stores and counts the
\* result under progress_lock
RetestWake(u) ==
    /\ phase = "retest"
    /\ pc[u] = "rsleep"
    /\ LET i == failed_groups[u][idx[u]] IN
        /\ row' = [row EXCEPT ![i].retry_info = TRUE]
        /\ results_dict' = [results_dict EXCEPT ![rows[i].id] = i]
        /\ completed' = CountCompleted(completed)
        /\ status' = [status EXCEPT ![i] = "RetrySucceeded"]
        /\ AfterRetestRow(u)
    /\ UNCHANGED <<config, call, matcher, phase, stopped, convState, semaphore, holds,
                   failed_groups, retry_config, request, out, mainOutcome, mainDisp,
                   retryDisp>>

\* the wait between two rows of a retest group ends
RetestGapEnd(u) ==
    /\ phase = "retest"
    /\ pc[u] = "rgap"
    /\ idx' = [idx EXCEPT ![u] = @ + 1]
    /\ pc' = [pc EXCEPT ![u] = "rrun"]
    /\ timer' = [timer EXCEPT ![u] = 0]
    /\ UNCHANGED <<config, call, matcher, phase, stopped, convState, row, results_dict,
                   completed, semaphore, holds, failed_groups, retry_config, request,
                   out, hist>>

\* process_retry_validation: the result list is put together in input order
RetestAssemble ==
    /\ phase = "retest"
    /\ AllTasksEnded
    /\ out' = [i \in RowIdx |-> IF InResults(i) THEN results_dict[rows[i].id] ELSE i]
    /\ row' = [i \in RowIdx |->
                IF InResults(i) THEN row[i]
                ELSE [row[i] EXCEPT !.reply = RetestUnfinished]]
    /\ phase' = "done"
    /\ UNCHANGED <<config, call, matcher, stopped, convState, results_dict, completed, sched,
                   hist>>

RetestNext ==
    \/ RetestStart
    \/ Stop
    \/ \E u \in Users : RetestAcquire(u)
    \/ \E u \in Users : RetestDispatch(u)
    \/ \E u \in Users, resp \in Responses(profile) : RetestReply(u, resp)
    \/ \E u \in Users, cause \in Causes(profile) : RetestRaise(u, cause)
    \/ \E u \in Users : RetestWake(u)
    \/ \E u \in Users : RetestGapEnd(u)
    \/ \E u \in Users : RetestFinish(u)
    \/ RetestAssemble

RetestSpec == RetestInit /\ [][RetestNext]_vars

\* ------------------------------------------------------ the text matcher
\* One call of check_rag_enhanced_hit or check_citation_file_match.  Here a
\* text is the sequence of its characters.
MaxChunks == 2        \* citation nodes of one answer
MaxSegments == 2      \* pieces the expected text is put together from

SetMin(S) == CHOOSE x \in S : \A y \in S : x <= y
SetMax(S) == CHOOSE x \in S : \A y \in S : x >= y

\* fractions n/d with d > 0, for the float results
Frac(n, d) == [n |-> n, d |-> d]
FracZero == Frac(0, 1)
FracOne == Frac(1, 1)
FracEq(x, y) == x.n * y.d = y.n * x.d
FracGe(x, y) == x.n * y.d >= y.n * x.d
FracGt(x, y) == x.n * y.d > y.n * x.d
InUnit(x) == x.n >= 0 /\ x.n <= x.d

\* str.lower()
LowerChar(c) ==
    CASE c = "A" -> "a"
      [] c = "B" -> "b"
      [] c = "C" -> "c"
      [] OTHER -> c
Lower(t) == [k \in 1..Len(t) |-> LowerChar(t[k])]

\* str.strip()
Whitespace == {" ", "\n"}
Strip(t) ==
    LET ks == {k \in 1..Len(t) : t[k] \notin Whitespace}
    IN IF ks = {} THEN <<>> ELSE SubSeq(t, SetMin(ks), SetMax(ks))

\* str.find(sep) + 1
Find(t, sep) ==
    LET ks == {k \in 1..(Len(t) - Len(sep) + 1) : SubSeq(t, k, k + Len(sep) - 1) = sep}
    IN IF ks = {} THEN 0 ELSE SetMin(ks)

\* str.split(sep)
RECURSIVE Split(_, _)
Split(t, sep) ==
    LET k == Find(t, sep)
    IN IF k = 0
       THEN <<t>>
       ELSE <<SubSeq(t, 1, k - 1)>> \o Split(SubSeq(t, k + Len(sep), Len(t)), sep)

\* [s.strip() for s in parts if s.strip()]
StrippedParts(parts) ==
    SelectSeq([k \in 1..Len(parts) |-> Strip(parts[k])], LAMBDA s : s # <<>>)

\* one round of the loop "for sep in separators" of parse_expected_segments
RECURSIVE SplitEach(_, _)
SplitEach(segments, sep) ==
    IF segments = <<>>
    THEN <<>>
    ELSE StrippedParts(Split(Head(segments), sep)) \o SplitEach(Tail(segments), sep)

RECURSIVE SplitBy(_, _)
SplitBy(segments, separators) ==
    IF separators = <<>>
    THEN segments
    ELSE SplitBy(SplitEach(segments, Head(separators)), Tail(separators))

Dashes == <<"-", "-", "-">>
Bars == <<"|", "|", "|">>
BlankLine == <<"\n", "\n">>
DefaultSeparators == <<Dashes, Bars, BlankLine>>

\* "custom_separators if custom_separators else default_separators";
\* custom_separators = <<>> stands for None or []
SeparatorsUsed(custom_separators) ==
    IF custom_separators # <<>> THEN custom_separators ELSE DefaultSeparators

\* "segments if len(segments) > 1 else [expected_content.strip()]"
SegmentsAsSplit(segments, expected_content) == segments
SegmentsOrWhole(segments, expected_content) ==
    IF Len(segments) > 1 THEN segments ELSE <<Strip(expected_content)>>

\* parse_expected_segments
ParseExpectedSegments(expected_content, custom_separators) ==
    IF expected_content = <<>>
    THEN <<>>
    ELSE SegmentsOrWhole(SplitBy(<<expected_content>>, SeparatorsUsed(custom_separators)),
                         expected_content)

\* SequenceMatcher(None, a, b): the matching blocks are the longest common
\* block (the earliest in a, then the earliest in b, among the longest) and,
\* recursively, those of the texts to its left and to its right; the sum of
\* their sizes
RECURSIVE MatchedChars(_, _)
MatchedChars(a, b) ==
    LET blocks == {blk \in (1..Len(a)) \X (1..Len(b)) \X (1..Len(a)) :
                      /\ blk[1] + blk[3] - 1 <= Len(a)
                      /\ blk[2] + blk[3] - 1 <= Len(b)
                      /\ SubSeq(a, blk[1], blk[1] + blk[3] - 1)
                            = SubSeq(b, blk[2], blk[2] + blk[3] - 1)}
    IN IF blocks = {}
       THEN 0
       ELSE LET size == SetMax({blk[3] : blk \in blocks})
                longest == {blk \in blocks : blk[3] = size}
                i == SetMin({blk[1] : blk \in longest})
                j == SetMin({blk[2] : blk \in {x \in longest : x[1] = i}})
            IN size + MatchedChars(SubSeq(a, 1, i - 1), SubSeq(b, 1, j - 1))
                    + MatchedChars(SubSeq(a, i + size, Len(a)),
                                   SubSeq(b, j + size, Len(b)))

\* SequenceMatcher.ratio(): 2 * matches / (len(a) + len(b)), 1.0 for two
\* empty texts
Ratio(a, b) ==
    IF Len(a) + Len(b) = 0
    THEN FracOne
    ELSE Frac(2 * MatchedChars(a, b), Len(a) + Len(b))

RECURSIVE SumStrippedLen(_)
SumStrippedLen(segments) ==
    IF segments = <<>> THEN 0
    ELSE Len(Strip(Head(segments))) + SumStrippedLen(Tail(segments))

\* min(1.0, max(0.0, ratio))
ClipNot(x) == x
Clip(x) == IF x.n < 0 THEN FracZero ELSE IF x.n > x.d THEN FracOne ELSE x

\* _calculate_character_ratio_similarity
CharacterRatioSimilarity(ai_chunk, expected_segment, expected_segments) ==
    IF ai_chunk = <<>> \/ expected_segment = <<>>
    THEN FracZero
    ELSE LET ai_text == Strip(Lower(ai_chunk))
             expected_text == Strip(Lower(expected_segment))
             matched_chars == MatchedChars(ai_text, expected_text)
             total_expected_length ==
                 IF expected_segments # <<>> THEN SumStrippedLen(expected_segments)
                 ELSE Len(expected_text)
         IN IF total_expected_length = 0
            THEN FracZero
            ELSE Clip(Frac(matched_chars, total_expected_length))

\* calculate_similarity
CalculateSimilarity(text1, text2, mode, expected_segments) ==
    IF text1 = <<>> \/ text2 = <<>>
    THEN FracZero
    ELSE IF mode = "character_ratio"
         THEN CharacterRatioSimilarity(text1, text2, expected_segments)
         ELSE Ratio(Strip(Lower(text1)), Strip(Lower(text2)))

FracAdd(x, y) == Frac(x.n * y.d + y.n * x.d, x.d * y.d)
FracMul(x, y) == Frac(x.n * y.n, x.d * y.d)
FracDiv(x, y) == Frac(x.n * y.d, x.d * y.n)

\* citation nodes: the text is under chatbotTextNode.text, under
\* chatbotTextNode.content, or the node exposes none
TextNode(t) == [field |-> "text", text |-> t]
ContentNode(t) == [field |-> "content", text |-> t]
OtherNode == [field |-> "none", text |-> <<>>]

\* top_k = None
NoTopK == 0 - 1

\* check_citation_hit
CheckCitationHit(citation_nodes, expected_content, similarity_threshold) ==
    IF citation_nodes = <<>> \/ expected_content = <<>>
    THEN FALSE
    ELSE LET scores == {CalculateSimilarity(citation_nodes[k].text, expected_content,
                                            "standard", <<>>) :
                            k \in {j \in 1..Len(citation_nodes) :
                                      citation_nodes[j].field # "none"}}
             hits == {s \in scores : FracGe(s, similarity_threshold)}
         IN hits # {}

\* rag_chunks: the nodes among the first top_k that expose a text, with the
\* (0-based) index of the node
RagChunks(citation_nodes, top_k) ==
    LET effective_top_k == IF top_k # NoTopK THEN top_k ELSE Len(citation_nodes)
        taken == SubSeq(citation_nodes, 1,
                        IF effective_top_k < Len(citation_nodes) THEN effective_top_k
                        ELSE Len(citation_nodes))
        indexed == [k \in 1..Len(taken) |->
                       [index |-> k - 1, content |-> taken[k].text,
                        field |-> taken[k].field]]
    IN SelectSeq(indexed, LAMBDA c : c.field # "none")

\* "if not segment_hit"
FirstMatchAlways(segment_hit) == TRUE
FirstMatch(segment_hit) == ~segment_hit

NoBestMatch == [chunk_idx |-> 0 - 1, similarity |-> FracZero]

\* "if similarity >= similarity_threshold"
MeetsThresholdStrict(similarity, similarity_threshold) ==
    FracGt(similarity, similarity_threshold)
MeetsThreshold(similarity, similarity_threshold) ==
    FracGe(similarity, similarity_threshold)

\* the loop "for chunk in rag_chunks" for one expected segment, from chunk k
\* on; marked lists the chunks at which "chunk['matched'] = True" ran
RECURSIVE ScanChunks(_, _, _, _)
ScanChunks(inp, expected_seg, k, st) ==
    IF k > Len(inp.rag_chunks)
    THEN st
    ELSE LET similarity == CalculateSimilarity(inp.rag_chunks[k].content, expected_seg,
                                                inp.similarity_mode, inp.expected_segments)
             meets == MeetsThreshold(similarity, inp.similarity_threshold)
             st1 == IF meets /\ FirstMatch(st.segment_hit)
                    THEN [st EXCEPT !.hit_count = @ + 1,
                                    !.segment_hit = TRUE,
                                    !.matched[k] = TRUE,
                                    !.marked = Append(@, k)]
                    ELSE st
             st2 == IF meets /\ FracGt(similarity, st1.best_match.similarity)
                    THEN [st1 EXCEPT !.best_match =
                             [chunk_idx |-> inp.rag_chunks[k].index,
                              similarity |-> similarity]]
                    ELSE st1
         IN ScanChunks(inp, expected_seg, k + 1, st2)

\* the loop "for exp_idx, expected_seg in enumerate(expected_segments)", from
\* segment e on; marks keeps the marked list of every segment
RECURSIVE ScanSegments(_, _, _)
ScanSegments(inp, e, st) ==
    IF e > Len(inp.expected_segments)
    THEN st
    ELSE LET scan == ScanChunks(inp, inp.expected_segments[e], 1,
                                [hit_count |-> st.hit_count, matched |-> st.matched,
                                 segment_hit |-> FALSE, best_match |-> NoBestMatch,
                                 marked |-> <<>>])
         IN ScanSegments(inp, e + 1,
                [hit_count |-> scan.hit_count,
                 matched |-> scan.matched,
                 matches |-> IF scan.segment_hit
                             THEN Append(st.matches, [expected_idx |-> e - 1,
                                                      best_match |-> scan.best_match])
                             ELSE st.matches,
                 marks |-> Append(st.marks, scan.marked)])

\* "not citation_nodes or not expected_content"
EmptyInputBoth(citation_nodes, expected_content) ==
    citation_nodes = <<>> /\ expected_content = <<>>
EmptyInput(citation_nodes, expected_content) ==
    citation_nodes = <<>> \/ expected_content = <<>>

\* "relevant_chunks / len(rag_chunks)"
PrecisionOfHits(relevant_chunks, hit_count, rag_chunks) ==
    Frac(hit_count, Len(rag_chunks))
Precision(relevant_chunks, hit_count, rag_chunks) ==
    Frac(relevant_chunks, Len(rag_chunks))

\* "hit_rate = hit_count / len(expected_segments)"
HitRateOverChunks(hit_count, expected_segments, rag_chunks) ==
    Frac(hit_count, Len(rag_chunks))
HitRate(hit_count, expected_segments, rag_chunks) ==
    Frac(hit_count, Len(expected_segments))

\* the tuple (is_hit, result) check_rag_enhanced_hit returns; keys a return
\* path does not set are left at <<>> or 0 here
RagResult(is_hit, error, hit_rate, hit_count, total_expected, total_chunks, precision, recall, f1_score) ==
    [is_hit |-> is_hit, error |-> error, hit_rate |-> hit_rate, hit_count |-> hit_count,
     total_expected |-> total_expected, total_chunks |-> total_chunks,
     precision |-> precision, recall |-> recall, f1_score |-> f1_score,
     relevant_chunks |-> 0, matched |-> <<>>, matches |-> <<>>, marks |-> <<>>]

NoError == "none"
NoInputError == "no_nodes_or_expected"     \* "無引用節點或預期內容為空"
NoChunksError == "no_rag_chunks"           \* "無有效的 RAG chunks"

\* "2 * (precision * recall) / (precision + recall) if (precision + recall) > 0
\* else 0.0"
F1Score(precision, recall) ==
    IF FracAdd(precision, recall).n > 0
    THEN FracDiv(FracMul(Frac(2, 1), FracMul(precision, recall)), FracAdd(precision, recall))
    ELSE FracZero

\* the metrics and the result after the loop over the expected segments
RagScored(scan, expected_segments, rag_chunks) ==
    LET relevant_chunks == Cardinality({k \in 1..Len(rag_chunks) : scan.matched[k]})
        precision == Precision(relevant_chunks, scan.hit_count, rag_chunks)
        recall == Frac(scan.hit_count, Len(expected_segments))
        hit_rate == HitRate(scan.hit_count, expected_segments, rag_chunks)
    IN [RagResult(hit_rate.n > 0, NoError, hit_rate, scan.hit_count,
                  Len(expected_segments), Len(rag_chunks), precision, recall,
                  F1Score(precision, recall))
          EXCEPT !.relevant_chunks = relevant_chunks, !.matched = scan.matched,
                 !.matches = scan.matches, !.marks = scan.marks]

\* check_rag_enhanced_hit
CheckRagEnhancedHit(citation_nodes, expected_content, similarity_threshold, top_k, custom_separators, similarity_mode) ==
    IF EmptyInput(citation_nodes, expected_content)
    THEN RagResult(FALSE, NoInputError, FracZero, 0, 0, 0, FracZero, FracZero, FracZero)
    ELSE
    LET expected_segments == ParseExpectedSegments(expected_content, custom_separators)
        rag_chunks == RagChunks(citation_nodes, top_k)
    IN IF expected_segments = <<>>
       THEN LET is_hit == CheckCitationHit(citation_nodes, expected_content,
                                           similarity_threshold)
                v == IF is_hit THEN FracOne ELSE FracZero
            IN RagResult(is_hit, NoError, v, IF is_hit THEN 1 ELSE 0, 1,
                         Len(citation_nodes), v, v, v)
       ELSE IF rag_chunks = <<>>
       THEN RagResult(FALSE, NoChunksError, FracZero, 0, Len(expected_segments), 0,
                      FracZero, FracZero, FracZero)
       ELSE
       RagScored(ScanSegments([rag_chunks |-> rag_chunks,
                               expected_segments |-> expected_segments,
                               similarity_threshold |-> similarity_threshold,
                               similarity_mode |-> similarity_mode],
                              1,
                              [hit_count |-> 0,
                               matched |-> [k \in 1..Len(rag_chunks) |-> FALSE],
                               matches |-> <<>>, marks |-> <<>>]),
                 expected_segments, rag_chunks)

\* ---- the answers and expected texts explored
Nodes == {TextNode(<<"A">>), ContentNode(<<"C">>), OtherNode}

NodeLists == UNION {[1..n -> Nodes] : n \in 0..MaxChunks}

\* pieces of an expected text, one of them blank
Pieces == {<<"A">>, <<"B">>, <<"A", "B">>, <<" ">>}

RECURSIVE Join(_, _)
Join(ps, sep) ==
    IF Len(ps) = 0 THEN <<>>
    ELSE IF Len(ps) = 1 THEN ps[1]
    ELSE ps[1] \o sep \o Join(Tail(ps), sep)

ExpectedContents ==
    {<<>>} \cup {ps[1] : ps \in [1..1 -> Pieces]}
    \cup {Join(ps, sep) : ps \in UNION {[1..n -> Pieces] : n \in 2..MaxSegments},
                          sep \in {BlankLine, Dashes}}

\* similarity_threshold: the slider runs from 0.0 to 1.0, the default is 0.3
DefaultThreshold == Frac(3, 10)
Thresholds == {Frac(0, 10), DefaultThreshold, Frac(9, 10)}

\* top_k, the selected separators and the mode
RagVariant(k, seps, mode) ==
    [top_k |-> k, custom_separators |-> seps, similarity_mode |-> mode]
DefaultVariant == RagVariant(NoTopK, <<>>, "standard")
Variants ==
    {DefaultVariant,
     RagVariant(NoTopK, <<>>, "character_ratio"),
     RagVariant(1, <<>>, "standard"),
     RagVariant(NoTopK, <<Dashes>>, "standard")}

\* the settings explored: every threshold with the default variant, every
\* variant with the default threshold and with the threshold 0.0
RagSettings ==
    {st \in [threshold : Thresholds, variant : Variants] :
        \/ st.threshold = DefaultThreshold
        \/ st.threshold = Frac(0, 10)
        \/ st.variant = DefaultVariant}

HitLabel == "yes"      \* "是"
MissLabel == "no"      \* "否"

NoResult == [is_hit |-> FALSE, error |-> "pending"]
NoStored == [label |-> "pending"]

RagCall(nodes, content, threshold, v) ==
    [op |-> "rag", state |-> "called", citation_nodes |-> nodes,
     expected_content |-> content, similarity_threshold |-> threshold,
     top_k |-> v.top_k, custom_separators |-> v.custom_separators,
     similarity_mode |-> v.similarity_mode, result |-> NoResult, stored |-> NoStored]

RagInit ==
    /\ rows = NoRows
    /\ maxConcurrent = 1
    /\ maxRetries = MaxRetries
    /\ apiDelay = ApiDelay
    /\ enableContext = TRUE
    /\ profile = "plain"
    /\ call = NoCall
    /\ matcher \in {RagCall(nodes, content, st.threshold, st.variant) :
                       nodes \in NodeLists, content \in ExpectedContents,
                       st \in RagSettings}
    /\ Fresh

\* process_single_question calls check_rag_enhanced_hit on the answer
EvaluateRag ==
    /\ matcher.op = "rag"
    /\ matcher.state = "called"
    /\ matcher' = [matcher EXCEPT
          !.state = "returned",
          !.result = CheckRagEnhancedHit(matcher.citation_nodes, matcher.expected_content,
                                         matcher.similarity_threshold, matcher.top_k,
                                         matcher.custom_separators,
                                         matcher.similarity_mode)]
    /\ UNCHANGED <<config, call, phase, stopped, convState, row, results_dict, completed,
                   sched, out, hist>>

\* process_single_question stores the metrics and the hit label in the row
RecordMetrics ==
    /\ matcher.op = "rag"
    /\ matcher.state = "returned"
    /\ matcher' = [matcher EXCEPT
          !.state = "recorded",
          !.stored = [precision |-> matcher.result.precision,
                      recall |-> matcher.result.recall,
                      f1_score |-> matcher.result.f1_score,
                      hit_rate |-> matcher.result.hit_rate,
                      label |-> IF matcher.result.is_hit THEN HitLabel ELSE MissLabel]]
    /\ UNCHANGED <<config, call, phase, stopped, convState, row, results_dict, completed,
                   sched, out, hist>>

RagNext ==
    \/ EvaluateRag
    \/ RecordMetrics

RagSpec == RagInit /\ [][RagNext]_vars

\* ---- check_citation_file_match
\* An identifier is one character here ("id1"); an expected text is a
\* sequence of identifiers, commas, newlines and blanks.
MaxCitations == 2     \* citations of one answer
MaxFields == 3        \* comma- or newline-separated fields of an expected text

Comma == <<",">>
Newline == <<"\n">>

Range(seq) == {seq[k] : k \in 1..Len(seq)}

\* "[f.strip() for f in line.split(',') if f.strip()]" for every non-blank
\* stripped line, in order
RECURSIVE FilesInLines(_)
FilesInLines(lines) ==
    IF lines = <<>>
    THEN <<>>
    ELSE LET line == Strip(Head(lines))
         IN (IF line # <<>> THEN StrippedParts(Split(line, Comma)) ELSE <<>>)
                \o FilesInLines(Tail(lines))

\* expected_file_list before "list(set(...))"
ExpectedFileList(expected_files) == FilesInLines(Split(expected_files, Newline))

\* len(list(set(expected_file_list)))
CountWithRepeats(expected_file_list) == Len(expected_file_list)
CountDistinct(expected_file_list) == Cardinality(Range(expected_file_list))

\* a citation with an 'id' key, or without one
Cited(id) == [has_id |-> TRUE, id |-> id]
Uncited == [has_id |-> FALSE, id |-> <<>>]

\* cited_uuids
CitedUuids(citations) ==
    {citations[k].id : k \in {j \in 1..Len(citations) : citations[j].has_id}}

\* the tuple (is_correct, result_detail); the lists matched_files and
\* unmatched_files are kept as sets, their order being the one of a Python set
FileMatchResult(is_correct, total_expected, total_matched, hit_rate, matched_files, unmatched_files, all_matched) ==
    [is_correct |-> is_correct, total_expected |-> total_expected,
     total_matched |-> total_matched, hit_rate |-> hit_rate,
     matched_files |-> matched_files, unmatched_files |-> unmatched_files,
     all_matched |-> all_matched]

\* check_citation_file_match
CheckCitationFileMatch(citations, expected_files) ==
    IF citations = <<>> \/ expected_files = <<>>
    THEN FileMatchResult(FALSE, 0, 0, FracZero, {}, {}, FALSE)
    ELSE LET expected_file_list == ExpectedFileList(expected_files)
             distinct == Range(expected_file_list)
             cited_uuids == CitedUuids(citations)
             matched_expected_files == {f \in distinct : f \in cited_uuids}
             total_expected == CountDistinct(expected_file_list)
             total_matched == Cardinality(matched_expected_files)
             hit_rate == IF total_expected > 0 THEN Frac(total_matched, total_expected)
                         ELSE FracZero
             unmatched_files == {f \in distinct : f \notin matched_expected_files}
             all_matched == total_matched = total_expected
         IN FileMatchResult(all_matched, total_expected, total_matched, hit_rate,
                            matched_expected_files, unmatched_files, all_matched)

\* ---- the citations and expected texts explored
Citations == {Cited(<<"id1">>), Cited(<<"id3">>), Uncited}
CitationLists == UNION {[1..n -> Citations] : n \in 0..MaxCitations}

\* fields of an expected text: an identifier, an identifier between blanks, or
\* nothing
Fields == {<<"id1">>, <<"id2">>, <<"id3">>, <<" ", "id1", " ">>, <<>>}
Delimiters == {Comma, Newline}

\* the fields fs joined by the delimiters ds
RECURSIVE JoinFields(_, _)
JoinFields(fs, ds) ==
    IF Len(fs) = 1 THEN fs[1]
    ELSE fs[1] \o ds[1] \o JoinFields(Tail(fs), Tail(ds))

ExpectedFiles ==
    UNION {{JoinFields(fs, ds) : fs \in [1..n -> Fields], ds \in [1..(n - 1) -> Delimiters]} :
              n \in 1..MaxFields}

CitationCall(citations, expected_files) ==
    [op |-> "citation", state |-> "called", citations |-> citations,
     expected_files |-> expected_files, result |-> NoResult]

CitationInit ==
    /\ rows = NoRows
    /\ maxConcurrent = 1
    /\ maxRetries = MaxRetries
    /\ apiDelay = ApiDelay
    /\ enableContext = TRUE
    /\ profile = "plain"
    /\ call = NoCall
    /\ matcher \in {CitationCall(citations, expected_files) :
                       citations \in CitationLists, expected_files \in ExpectedFiles}
    /\ Fresh

\* one call of check_citation_file_match
MatchCitations ==
    /\ matcher.op = "citation"
    /\ matcher.state = "called"
    /\ matcher' = [matcher EXCEPT
          !.state = "returned",
          !.result = CheckCitationFileMatch(matcher.citations, matcher.expected_files)]
    /\ UNCHANGED <<config, call, phase, stopped, convState, row, results_dict, completed,
                   sched, out, hist>>

CitationNext == MatchCitations

CitationSpec == CitationInit /\ [][CitationNext]_vars

\* ---- calculate_similarity on its own
MaxTextLen == 2       \* characters of a text handed to calculate_similarity

Letters == {"A", "a", "B", " "}
Texts == UNION {[1..n -> Letters] : n \in 0..MaxTextLen}

\* expected_segments as the callers pass it: None, the segments the text is
\* one of, or segments of another text
SegmentLists(text2) == {<<>>, <<text2>>, <<text2, <<"B">>>>, <<<<"A">>>>}

SimilarityCall(text1, text2, mode, expected_segments) ==
    [op |-> "similarity", state |-> "called", text1 |-> text1, text2 |-> text2,
     mode |-> mode, expected_segments |-> expected_segments, result |-> FracZero]

SimilarityInit ==
    /\ rows = NoRows
    /\ maxConcurrent = 1
    /\ maxRetries = MaxRetries
    /\ apiDelay = ApiDelay
    /\ enableContext = TRUE
    /\ profile = "plain"
    /\ call = NoCall
    /\ matcher \in {SimilarityCall(text1, text2, "standard", <<>>) :
                       text1 \in Texts, text2 \in Texts}
                   \cup UNION {{SimilarityCall(text1, text2, "character_ratio", segs) :
                                   segs \in SegmentLists(text2)} :
                                text1 \in Texts, text2 \in Texts}
    /\ Fresh

\* one call of calculate_similarity
Similarity ==
    /\ matcher.op = "similarity"
    /\ matcher.state = "called"
    /\ matcher' = [matcher EXCEPT
          !.state = "returned",
          !.result = CalculateSimilarity(matcher.text1, matcher.text2, matcher.mode,
                                         matcher.expected_segments)]
    /\ UNCHANGED <<config, call, phase, stopped, convState, row, results_dict, completed,
                   sched, out, hist>>

SimilarityNext == Similarity

SimilaritySpec == SimilarityInit /\ [][SimilarityNext]_vars

\* ================================================================ claims
ZeroRow(i) == row[i].metrics = ZeroMetrics
SameGroup(i, j) == rows[i].flagged /\ rows[j].flagged /\ rows[i].user = rows[j].user
InFailedGroup(i) ==
    \E k \in 1..Len(failed_groups[rows[i].user]) : failed_groups[rows[i].user][k] = i
RetryEnded(i) == status[i] \in {"RetrySucceeded", "TerminallyFailed"}
DistinctIds == \A i, j \in RowIdx : rows[i].id = rows[j].id => i = j

\* C1: the list process_validation returns has the length of the input and
\* holds every input row exactly once, at the position it had in the input.
C1_OutputIsInput ==
    phase = "done" => /\ Len(out) = NumRows
                      /\ \A i \in RowIdx : out[i] = i

\* C2: in the main pass at most maxConcurrent groups hold a slot, the free
\* slots and the held ones add up to maxConcurrent, and a group with an
\* outstanding request (or anywhere inside its loop) holds a slot.
C2_SlotsBounded ==
    phase = "main" =>
        /\ Cardinality(holds) <= maxConcurrent
        /\ semaphore + Cardinality(holds) = maxConcurrent
        /\ \A u \in Users : pc[u] \in {"run", "inflight", "sleep"} => u \in holds

C2_Witness ==
    /\ phase = "main"
    /\ maxConcurrent = 1
    /\ \E u, v \in Users : pc[u] = "inflight" /\ pc[v] = "wait"

\* C3: within a questioner-group a row is dispatched only after every earlier
\* row of the group has its outcome recorded, in the main pass and in the
\* retry pass.
C3_GroupOrder ==
    \A i, j \in RowIdx :
        (i < j /\ SameGroup(i, j)) =>
            /\ mainDisp[j] > 0 => mainOutcome[i] # "none"
            /\ (retryDisp[j] > 0 /\ InFailedGroup(i) /\ InFailedGroup(j))
                   => RetryEnded(i)

C3_Witness ==
    \E i, j \in RowIdx :
        /\ i < j /\ SameGroup(i, j)
        /\ mainDisp[j] > 0
        /\ retryDisp[i] > 0 /\ retryDisp[j] > 0

\* C4: a row that obtained a successful reply in the main pass is never
\* dispatched in the retry pass.
C4_SucceededNotRetried ==
    \A i \in RowIdx : mainOutcome[i] = "ok" => retryDisp[i] = 0

\* C5: when stop is not requested, every flagged row whose main-pass outcome is
\* a failure marker, or that was never recorded, is dispatched exactly once in
\* the retry pass.
C5_FailedRetriedOnce ==
    (phase = "done" /\ ~stopped) =>
        \A i \in RowIdx :
            (rows[i].flagged /\ mainOutcome[i] \in {"fail", "none"})
                => retryDisp[i] = 1

\* C6: a record's status moves only along Pending -> Dispatched ->
\* {Succeeded | FailedRetryable} -> (retry pass) -> {RetrySucceeded |
\* TerminallyFailed}, or Pending -> Skipped.
StatusStep(a, b) ==
    \/ a = b
    \/ a = "Pending" /\ b \in {"Dispatched", "Skipped"}
    \/ a = "Dispatched" /\ b \in {"Succeeded", "FailedRetryable"}
    \/ a = "FailedRetryable" /\ b = "RetryDispatched"
    \/ a = "RetryDispatched" /\ b \in {"RetrySucceeded", "TerminallyFailed"}

C6_StatusMachine ==
    [][\A i \in RowIdx : StatusStep(status[i], status'[i])]_vars

\* C7: a row whose dispatch fails gets, at that step, a failure marker carrying
\* the cause and zero metrics, and is stored in the results map; a row that
\* fails in both passes has such a marker and zero metrics in the final output.
AllCauses == {ExhaustedCause, StatusCause, PayloadCause, LenCause}

C7_FailureStaysAtRow ==
    /\ [][\A i \in RowIdx :
            /\ (status[i] # "FailedRetryable" /\ status'[i] = "FailedRetryable") =>
                  /\ \E c \in AllCauses : row'[i].reply = MainFailureMarker(c)
                  /\ row'[i].metrics = ZeroMetrics
                  /\ results_dict'[rows[i].id] = i
            /\ (status[i] # "TerminallyFailed" /\ status'[i] = "TerminallyFailed") =>
                  /\ \E c \in AllCauses : row'[i].reply = RetryFailureMarker(c)
                  /\ row'[i].metrics = ZeroMetrics
                  /\ results_dict'[rows[i].id] = i]_vars
    /\ [](phase = "done" =>
            \A i \in RowIdx :
                (mainOutcome[i] = "fail" /\ status[i] = "TerminallyFailed") =>
                    /\ \E c \in AllCauses : row[out[i]].reply = RetryFailureMarker(c)
                    /\ ZeroRow(out[i]))

\* C8: a failure of one row keeps no later row of its group and no row of
\* another group from being dispatched and recorded: unless stop is requested
\* every flagged row is dispatched once in the main pass and recorded.
C8_FailureDoesNotAbort ==
    (~stopped /\ phase \in {"assemble", "retry", "done"}) =>
        \A i \in RowIdx : rows[i].flagged => (mainDisp[i] = 1 /\ InResults(i))

C8_Witness ==
    /\ phase = "done"
    /\ ~stopped
    /\ \E i, j, k \in RowIdx :
        /\ i < j /\ SameGroup(i, j) /\ rows[k].flagged
        /\ mainOutcome[i] = "fail"
        /\ mainOutcome[j] # "none"
        /\ mainOutcome[k] # "none"

\* C9: a row is dispatched only while the stop flag is clear, in either pass,
\* and every flagged row that was never dispatched is in the final output as
\* interrupted with zero metrics.
C9_StopHonoured ==
    /\ [][\A i \in RowIdx :
            (mainDisp'[i] # mainDisp[i] \/ retryDisp'[i] # retryDisp[i]) => ~stopped]_vars
    /\ [](phase = "done" =>
            \A i \in RowIdx :
                (rows[i].flagged /\ mainDisp[i] = 0 /\ retryDisp[i] = 0) =>
                    /\ out[i] = i
                    /\ row[i].reply = InterruptedMarker
                    /\ ZeroRow(i))

\* C10: every record of the final output has a non-empty reply.
C10_ReplyNeverEmpty ==
    phase = "done" => \A i \in RowIdx : Truthy(row[out[i]].reply)

\* question i is part of message m / of the history of questioner u
InMessage(i, m) == \E k \in 1..Len(m.questions) : m.questions[k] = i
InContext(i, u) == \E k \in 1..Len(context[u]) : context[u][k] = i

\* C11: a row that is not flagged is never dispatched or part of a request, is
\* never stored in the results map, never counted and never part of a history;
\* the counter moves only when a flagged row's outcome is recorded; in the
\* final output the row stands at its own position as Skipped with zero
\* metrics.
C11_SkippedUntouched ==
    /\ [](\A i \in RowIdx :
            ~rows[i].flagged =>
                /\ mainDisp[i] = 0 /\ retryDisp[i] = 0
                /\ mainOutcome[i] = "none"
                /\ \A u \in Users :
                      /\ request[u].row # i
                      /\ ~InMessage(i, request[u].message)
                      /\ ~InContext(i, u)
                /\ \A k \in Ids : results_dict[k] # i
                /\ phase = "done" =>
                      /\ out[i] = i
                      /\ status[out[i]] = "Skipped"
                      /\ row[out[i]].reply = SkipMarker
                      /\ ZeroRow(out[i]))
    /\ [][completed' # completed =>
            \E i \in RowIdx : rows[i].flagged /\ mainOutcome'[i] # mainOutcome[i]]_vars

\* rows whose main-pass outcome is recorded
Recorded == {i \in RowIdx : mainOutcome[i] # "none"}

\* C12: the progress_lock sections of the main pass contain no suspension
\* point, so each is entered and left within one step and at most one group is
\* inside at a time: a step records the outcome of at most one row, stores that
\* row in the results map and adds exactly one to the counter, on the success
\* path and on the failure path; between steps (the lock is free) the counter
\* is the number of outcomes recorded so far.
C12_CounterMatchesRecords ==
    /\ [](completed = Cardinality(Recorded))
    /\ [][LET rec == {i \in RowIdx : mainOutcome[i] = "none" /\ mainOutcome'[i] # "none"}
          IN /\ Cardinality(rec) <= 1
             /\ completed' = completed + Cardinality(rec)
             /\ \A i \in rec : results_dict'[rows[i].id] = i]_vars

C12_Witness ==
    /\ phase = "main"
    /\ completed = 2
    /\ \E i, j \in RowIdx : mainOutcome[i] = "ok" /\ mainOutcome[j] = "fail"

\* C13: a record is worked on only by the group of its questioner: a request
\* is for a flagged row of the requesting group, no two groups have a request
\* for the same row, a row is dispatched at most once per pass, and while a
\* pass runs every step that changes a record's fields or dispatches it is a
\* step of its questioner's group and of no other group.
C13_ExclusiveOwnership ==
    /\ [](/\ \A u \in Users :
              request[u].row # 0 =>
                  /\ rows[request[u].row].flagged
                  /\ rows[request[u].row].user = u
                  /\ \A v \in Users \ {u} : request[v].row # request[u].row
          /\ \A i \in RowIdx : mainDisp[i] <= 1 /\ retryDisp[i] <= 1)
    /\ [][\A i \in RowIdx :
            (/\ phase \in {"main", "retry"}
             /\ phase' = phase
             /\ \/ row'[i] # row[i]
                \/ mainDisp'[i] # mainDisp[i]
                \/ retryDisp'[i] # retryDisp[i])
            => /\ pc'[rows[i].user] # pc[rows[i].user]
               /\ \A v \in Users \ {rows[i].user} : pc'[v] = pc[v]]_vars

C13_Witness ==
    /\ phase = "retry"
    /\ \E u, v \in Users :
        /\ u # v
        /\ pc[u] = "rinflight"
        /\ pc[v] \in {"rwait", "done"}
        /\ failed_groups[v] # <<>>
        /\ \A k \in 1..Len(failed_groups[v]) : mainDisp[failed_groups[v][k]] = 1

\* C14: while the retry pass runs, its settings are max(1, N div 2) slots, a
\* delay of 2 d and min(r + 2, 8) attempts for the configured N, d and r; the
\* free and the held slots add up to max(1, N div 2), every group inside its
\* retry loop holds one, every retry request carries the raised ceiling and
\* every sleep of the pass lasts 2 d.
HalvedBound == IF maxConcurrent \div 2 > 1 THEN maxConcurrent \div 2 ELSE 1
RaisedCeiling == IF maxRetries + 2 < 8 THEN maxRetries + 2 ELSE 8

C14_RetryProfile ==
    phase = "retry" =>
        /\ retry_config.concurrency = HalvedBound
        /\ retry_config.delay = 2 * apiDelay
        /\ retry_config.attempts = RaisedCeiling
        /\ Cardinality(holds) <= HalvedBound
        /\ semaphore + Cardinality(holds) = HalvedBound
        /\ \A u \in Users :
              /\ pc[u] \in {"rrun", "rinflight", "rsleep", "rgap"} => u \in holds
              /\ request[u].row # 0 => request[u].max_retries = RaisedCeiling
              /\ pc[u] \in {"rsleep", "rgap"} => timer[u] = 2 * apiDelay

C14_Witness ==
    /\ phase = "retry"
    /\ maxConcurrent = 2
    /\ \E u, v \in Users : pc[u] = "rsleep" /\ pc[v] = "rwait"

\* C15: for every setting the sliders allow, the retry pass's ceiling of
\* attempts is strictly greater than the configured one and its concurrency
\* bound is no greater than the configured one.
C15_MoreConservative ==
    retry_config # NoRetryConfig =>
        /\ retry_config.attempts > maxRetries
        /\ retry_config.concurrency <= maxConcurrent

\* C16: the message of a main-pass request is the combined message - the
\* questioner's earlier questions in the order asked, then the current one -
\* when the request was built without a conversation id, with context chaining
\* on and after at least one earlier question of the questioner; otherwise it
\* is the current question alone.
C16_MainMessage ==
    \A u \in Users :
        (phase = "main" /\ request[u].row # 0) =>
            LET earlier == SubSeq(Group(u), 1, idx[u] - 1) IN
                IF /\ request[u].conversation = Absent
                   /\ enableContext
                   /\ earlier # <<>>
                THEN /\ request[u].message.combined
                     /\ request[u].message.questions = Append(earlier, request[u].row)
                ELSE /\ ~request[u].message.combined
                     /\ request[u].message.questions = <<request[u].row>>

C16_Witness ==
    \E u \in Users :
        /\ phase = "main"
        /\ request[u].row # 0
        /\ request[u].message.combined
        /\ Len(request[u].message.questions) = 2

\* position of row i among the flagged rows of its questioner
PosInGroup(i) ==
    CHOOSE k \in 1..Len(Group(rows[i].user)) : Group(rows[i].user)[k] = i

\* C17: a combined message built in the retry pass ends with the retried row's
\* question, holds it nowhere else, and lists before it only questions of the
\* questioner that were asked before that row.
C17_RetryMessageNoDuplicate ==
    \A u \in Users :
        (phase = "retry" /\ request[u].row # 0 /\ request[u].message.combined) =>
            LET i == request[u].row
                q == request[u].message.questions
            IN /\ q[Len(q)] = i
               /\ \A k \in 1..(Len(q) - 1) :
                     /\ q[k] # i
                     /\ rows[q[k]].flagged
                     /\ rows[q[k]].user = u
                     /\ PosInGroup(q[k]) < PosInGroup(i)

\* C18: a questioner that has a conversation id keeps it in every step, and
\* every request built while it has one carries it.
C18_ConversationKept ==
    [][\A u \in Users :
          /\ conversations[u] # Absent => conversations'[u] = conversations[u]
          /\ (request[u].row = 0 /\ request'[u].row # 0)
                => request'[u].conversation = conversations[u]]_vars

\* C20: a call of send_message or download_knowledge_base_file makes at most
\* max_retries attempts; an attempt that succeeds is the last one made, and
\* the call returns, with the answer of that attempt.
C20_AttemptCeiling ==
    LET h == call.history IN
        /\ Len(h) <= call.max_retries
        /\ \A k \in 1..(Len(h) - 1) : h[k] # "ok"
        /\ (Len(h) > 0 /\ h[Len(h)] = "ok") =>
              (call.state = "returned" /\ call.result = Len(h))
        /\ call.state = "returned" => (Len(h) > 0 /\ h[Len(h)] = "ok")

C20_Witness ==
    /\ call.state = "returned"
    /\ call.max_retries > 1
    /\ Len(call.history) = call.max_retries

\* conversation ids and questions recorded by an earlier run
OldConversations == {OldConversation(u) : u \in Users}
IsOldQuestion(q) == \E k \in 1..Len(OldQuestions) : OldQuestions[k] = q

\* C19: a run that dispatches questions starts from an empty conversation map
\* and empty histories, and no request of the run carries a conversation id or
\* a question recorded by an earlier run.
C19_RunStartsClean ==
    /\ [][(phase = "init" /\ phase' \notin {"init", "done"}) =>
            /\ \A u \in Users : conversations'[u] = Absent
            /\ \A u \in Users : context'[u] = <<>>]_vars
    /\ [](\A u \in Users :
            request[u].row # 0 =>
                /\ request[u].conversation \notin OldConversations
                /\ \A k \in 1..Len(request[u].message.questions) :
                      ~IsOldQuestion(request[u].message.questions[k]))

\* what the k-th attempt of the call met
NetworkFault(m) == m.fault \in {"fault", "reset"}
CallEndedAt(k) == call.state \in {"returned", "raised"} /\ Len(call.seen) = k

\* C21: in send_message, after attempt a (from 0) fails on a transient network
\* fault and is not the last allowed attempt, the client waits 2^a seconds,
\* or 2 * 2^a when the fault is a connection reset, and another attempt
\* follows; after the final attempt it does not wait.
C21_SendBackoff ==
    call.op = "send" =>
        LET n == Len(call.seen)
            a == n - 1
        IN /\ call.state = "waiting" =>
                /\ NetworkFault(call.seen[n])
                /\ a < call.max_retries - 1
                /\ call.wait = IF call.seen[n].fault = "reset" THEN 2 * (2 ^ a) ELSE 2 ^ a
           /\ call.state # "waiting" => call.wait = 0
           /\ \A k \in 1..n :
                NetworkFault(call.seen[k]) =>
                    IF k < call.max_retries
                    THEN ~CallEndedAt(k)
                    ELSE call.state = "raised"

C21_Witness ==
    /\ call.op = "send"
    /\ call.state = "waiting"
    /\ Len(call.seen) = 2
    /\ call.seen[1].fault = "fault"
    /\ call.seen[2].fault = "reset"
    /\ call.wait = 4

\* the file record says the file is absent, or in a state that cannot be
\* downloaded
RecordAbsent(m) == m.fault = "none" /\ m.status = StatusNotFound
RecordUnretrievable(m) ==
    m.fault = "none" /\ m.status = StatusOk /\ m.file_status \in Unretrievable

\* C22: in download_knowledge_base_file, an attempt that finds the file absent
\* (404 on the file record) or in status deleting or failed is the last one:
\* the call fails after it, whatever number of attempts remains.
C22_TerminalNeverRetried ==
    call.op = "download" =>
        \A k \in 1..Len(call.seen) :
            (RecordAbsent(call.seen[k]) \/ RecordUnretrievable(call.seen[k]))
                => (Len(call.seen) = k /\ call.state = "raised")

\* a response with a transient server-side status: of the message request, of
\* the file record, or of the GET of the file
TransientResponse(m) ==
    /\ m.fault = "none"
    /\ \/ m.status \in TransientStatus
       \/ /\ call.op = "download"
          /\ DownloadOutcome(m) = "transient"

\* C23: in send_message and in download_knowledge_base_file, an attempt that
\* meets a 502, 503 or 504 is followed by another attempt while attempts
\* remain, and at the ceiling the call raises a failure carrying that cause.
C23_TransientStatusRetried ==
    call.op \in Ops =>
        \A k \in 1..Len(call.seen) :
            TransientResponse(call.seen[k]) =>
                IF k < call.max_retries
                THEN ~CallEndedAt(k)
                ELSE /\ call.state = "raised"
                     /\ call.failure = "exhausted"
                     /\ call.last = call.history[k]

\* the call of check_rag_enhanced_hit has returned
RagReturned == matcher.op = "rag" /\ matcher.state # "called"

\* C24: on every return path of check_rag_enhanced_hit, recall equals
\* hit_rate, the hit flag is true exactly when hit_rate is positive, and
\* precision, recall, f1 and hit_rate lie between 0 and 1.
C24_MetricsConsistent ==
    RagReturned =>
        LET r == matcher.result IN
            /\ FracEq(r.recall, r.hit_rate)
            /\ r.is_hit <=> FracGt(r.hit_rate, FracZero)
            /\ InUnit(r.precision)
            /\ InUnit(r.recall)
            /\ InUnit(r.f1_score)
            /\ InUnit(r.hit_rate)

C24_Witness ==
    /\ RagReturned
    /\ matcher.result.error = NoError
    /\ matcher.result.is_hit
    /\ FracGt(FracOne, matcher.result.recall)
    /\ FracGt(matcher.result.precision, matcher.result.recall)

\* the chunks and segments the scoring loop of the call runs over
CallSegments == ParseExpectedSegments(matcher.expected_content, matcher.custom_separators)
CallChunks == RagChunks(matcher.citation_nodes, matcher.top_k)
Score(k, e) ==
    CalculateSimilarity(CallChunks[k].content, CallSegments[e],
                        matcher.similarity_mode, CallSegments)
Meets(k, e) == FracGe(Score(k, e), matcher.similarity_threshold)
MeetingChunks(e) == {k \in 1..Len(CallChunks) : Meets(k, e)}

\* C25: for each expected segment the hit counter goes up at most once and
\* exactly one chunk, the first in order whose score meets the threshold, is
\* marked matched for it (several segments may mark the same chunk); the
\* later chunks that meet the threshold only raise the best score; so
\* hit_count <= number of segments and matched chunks <= hit_count.
C25_FirstMatchOnly ==
    (RagReturned /\ matcher.result.error = NoError) =>
        LET r == matcher.result
            segs == CallSegments
            rag == CallChunks
            score == [e \in 1..Len(segs) |->
                        [k \in 1..Len(rag) |->
                            CalculateSimilarity(rag[k].content, segs[e],
                                                matcher.similarity_mode, segs)]]
            meeting == [e \in 1..Len(segs) |->
                          {k \in 1..Len(rag) :
                              FracGe(score[e][k], matcher.similarity_threshold)}]
            hit == {e \in 1..Len(segs) : meeting[e] # {}}
        IN /\ Len(r.marks) = Len(segs)
           /\ \A e \in 1..Len(segs) :
                 r.marks[e] = IF e \in hit THEN <<SetMin(meeting[e])>> ELSE <<>>
           /\ r.hit_count = Cardinality(hit)
           /\ \A k \in 1..Len(rag) :
                 r.matched[k] <=> \E e \in hit : k = SetMin(meeting[e])
           /\ Len(r.matches) = Cardinality(hit)
           /\ \A m \in 1..Len(r.matches) :
                 LET e == r.matches[m].expected_idx + 1 IN
                    /\ e \in hit
                    /\ \A k \in meeting[e] :
                          FracGe(r.matches[m].best_match.similarity, score[e][k])
           /\ r.hit_count <= r.total_expected
           /\ r.relevant_chunks <= r.hit_count

C25_Witness ==
    /\ RagReturned
    /\ matcher.result.error = NoError
    /\ matcher.result.marks = <<<<1>>, <<1>>>>
    /\ Cardinality(MeetingChunks(1)) = 2
    /\ matcher.result.relevant_chunks = 1
    /\ matcher.result.hit_count = 2

\* the scenario of the specification: segments A and B, chunks A and C,
\* threshold 0.9, standard mode
ScenarioCall ==
    /\ matcher.citation_nodes = <<TextNode(<<"A">>), ContentNode(<<"C">>)>>
    /\ matcher.expected_content = <<"A">> \o BlankLine \o <<"B">>
    /\ matcher.similarity_threshold = Frac(9, 10)
    /\ matcher.similarity_mode = "standard"
    /\ matcher.custom_separators = <<>>
    /\ matcher.top_k = NoTopK

\* C26: check_rag_enhanced_hit returns precision = matched chunks / chunks,
\* recall = hit segments / segments and f1 = 2pr/(p+r), 0 when p+r = 0; in
\* the scenario (segments A, B; chunks A, C; threshold 0.9) hit_count = 1,
\* precision = recall = f1 = hit_rate = 1/2 and the hit flag is true.
C26_MetricFormulas ==
    (RagReturned /\ matcher.result.error = NoError) =>
        LET r == matcher.result
            segs == CallSegments
            rag == CallChunks
            matched_chunk_count == Cardinality({k \in 1..Len(rag) : r.matched[k]})
        IN /\ r.total_chunks = Len(rag)
           /\ r.total_expected = Len(segs)
           /\ r.precision.n * r.total_chunks = matched_chunk_count * r.precision.d
           /\ r.recall.n * r.total_expected = r.hit_count * r.recall.d
           /\ IF r.precision.n = 0 /\ r.recall.n = 0
              THEN r.f1_score.n = 0
              ELSE \* f1 * (p + r) = 2 * p * r
                   r.f1_score.n * (r.precision.n * r.recall.d + r.recall.n * r.precision.d)
                        * (r.precision.d * r.recall.d)
                     = 2 * r.precision.n * r.recall.n * r.f1_score.d
                        * (r.precision.d * r.recall.d)
           /\ ScenarioCall =>
                 /\ segs = <<<<"A">>, <<"B">>>>
                 /\ r.hit_count = 1
                 /\ FracEq(r.precision, Frac(1, 2))
                 /\ FracEq(r.recall, Frac(1, 2))
                 /\ FracEq(r.f1_score, Frac(1, 2))
                 /\ FracEq(r.hit_rate, Frac(1, 2))
                 /\ r.is_hit

C26_Witness ==
    /\ RagReturned
    /\ ScenarioCall
    /\ matcher.result.hit_count = 1

\* no node among those the call looks at exposes a text
NoTextChunk ==
    \A k \in 1..Len(matcher.citation_nodes) :
        (matcher.top_k = NoTopK \/ k <= matcher.top_k)
            => matcher.citation_nodes[k].field = "none"

IsZero(x) == x.n = 0

\* C30: with no chunk or no expected text, check_rag_enhanced_hit returns
\* the hit flag false, hit_rate, hit_count, precision, recall and f1 zero,
\* and an error flag, and process_single_question stores these zero metrics
\* in the row and goes on.
C30_EmptyInputZeroMetrics ==
    (RagReturned /\ (NoTextChunk \/ matcher.expected_content = <<>>)) =>
        LET r == matcher.result IN
            /\ ~r.is_hit
            /\ r.hit_count = 0
            /\ IsZero(r.hit_rate) /\ IsZero(r.precision)
            /\ IsZero(r.recall) /\ IsZero(r.f1_score)
            /\ r.error \in {NoInputError, NoChunksError}
            /\ matcher.state = "recorded" =>
                  /\ IsZero(matcher.stored.hit_rate) /\ IsZero(matcher.stored.precision)
                  /\ IsZero(matcher.stored.recall) /\ IsZero(matcher.stored.f1_score)
                  /\ matcher.stored.label = MissLabel

C30_Witness ==
    /\ matcher.op = "rag"
    /\ matcher.state = "recorded"
    /\ matcher.citation_nodes # <<>>
    /\ matcher.expected_content = <<>>
    /\ matcher.stored.label = MissLabel

\* the call of check_citation_file_match has returned
CitationReturned == matcher.op = "citation" /\ matcher.state = "returned"

\* The expected identifiers of a text, read off the text itself: the stretches
\* between two delimiters (comma, newline, or an end of the text), blanks at
\* their ends removed, the empty ones left out.
IsDelimiter(c) == c = "," \/ c = "\n"
Stretches(t) ==
    {SubSeq(t, i, j - 1) : i \in 1..(Len(t) + 1), j \in 1..(Len(t) + 1)} \cap
    {SubSeq(t, i, j - 1) : i \in {k \in 1..(Len(t) + 1) : k = 1 \/ IsDelimiter(t[k - 1])},
                           j \in {k \in 1..(Len(t) + 1) : k = Len(t) + 1 \/ IsDelimiter(t[k])}}
ExpectedIdentifiers(t) ==
    {Strip(x) : x \in {y \in Stretches(t) : \A k \in 1..Len(y) : ~IsDelimiter(y[k])}}
        \ {<<>>}
CitedIdentifiers ==
    {matcher.citations[k].id :
        k \in {j \in 1..Len(matcher.citations) : matcher.citations[j].has_id}}

\* C27: on every return path of check_citation_file_match, empty inputs
\* included, all_matched is true exactly when unmatched_files is empty and
\* exactly when total_matched = total_expected; matched_files and
\* unmatched_files are disjoint and together are the expected identifiers.
C27_AllMatchedIffNoneUnmatched ==
    CitationReturned =>
        LET r == matcher.result IN
            /\ r.all_matched <=> r.unmatched_files = {}
            /\ r.all_matched <=> r.total_matched = r.total_expected
            /\ r.matched_files \cap r.unmatched_files = {}
            /\ r.matched_files \cup r.unmatched_files
                    = ExpectedIdentifiers(matcher.expected_files)

\* C28: check_citation_file_match answers correct only when every expected
\* identifier equals some cited identifier; with no citation, or with an
\* expected text that yields no identifier, it answers not correct, with
\* zero counts.
C28_CorrectOnlyIfAllCited ==
    CitationReturned =>
        LET r == matcher.result
            expected == ExpectedIdentifiers(matcher.expected_files)
        IN /\ r.is_correct => expected \subseteq CitedIdentifiers
           /\ (matcher.citations = <<>> \/ expected = {}) =>
                 /\ ~r.is_correct
                 /\ r.total_expected = 0
                 /\ r.total_matched = 0

\* "id1,id2\nid3" against the citations id1 and id3
ScenarioFiles ==
    /\ matcher.expected_files = <<"id1", ",", "id2", "\n", "id3">>
    /\ matcher.citations = <<Cited(<<"id1">>), Cited(<<"id3">>)>>

C32_SegmentsOfNonEmpty ==
    matcher.op = "rag" =>
        LET segs == CallSegments IN
            /\ segs = <<>> <=> matcher.expected_content = <<>>
            /\ matcher.expected_content # <<>> => Len(segs) >= 1
            /\ (RagReturned /\ matcher.result.error # NoInputError) =>
                  /\ matcher.result.total_expected = Len(segs)
                  /\ matcher.result.total_expected >= 1

\* a text that splitting and stripping leave nothing of
C32_Witness ==
    /\ RagReturned
    /\ matcher.expected_content # <<>>
    /\ SplitBy(<<matcher.expected_content>>, SeparatorsUsed(matcher.custom_separators)) = <<>>
    /\ matcher.result.total_expected = 1

\* the call of calculate_similarity has returned
SimilarityReturned == matcher.op = "similarity" /\ matcher.state = "returned"

\* text a occurs in text b as one block
OccursIn(a, b) == \E k \in 1..(Len(b) - Len(a) + 1) : SubSeq(b, k, k + Len(a) - 1) = a

\* C33: calculate_similarity returns a value between 0 and 1 in both modes,
\* 0 when either text is empty, and in standard mode 1 for two identical
\* non-empty texts; where one lower-cased, stripped text occurs in the other
\* the standard score is 2 * (length of the shorter) / (sum of the lengths).
C33_SimilarityRange ==
    SimilarityReturned =>
        LET r == matcher.result
            a == Strip(Lower(matcher.text1))
            b == Strip(Lower(matcher.text2))
        IN /\ InUnit(r)
           /\ (matcher.text1 = <<>> \/ matcher.text2 = <<>>) => IsZero(r)
           /\ (matcher.mode = "standard" /\ matcher.text1 # <<>>
                 /\ matcher.text1 = matcher.text2) => FracEq(r, FracOne)
           /\ (matcher.mode = "standard" /\ matcher.text1 # <<>> /\ matcher.text2 # <<>>
                 /\ a # <<>> /\ OccursIn(a, b)) =>
                 FracEq(r, Frac(2 * Len(a), Len(a) + Len(b)))

\* a character-ratio call whose matched characters outnumber the segments'
C33_Witness ==
    /\ SimilarityReturned
    /\ matcher.mode = "character_ratio"
    /\ matcher.expected_segments # <<>>
    /\ MatchedChars(Strip(Lower(matcher.text1)), Strip(Lower(matcher.text2)))
          > SumStrippedLen(matcher.expected_segments)
    /\ FracEq(matcher.result, FracOne)

\* the services all of whose answers carry the nominal chunks and citations
SameAnswers == profile \in {"plain", "noconv", "marker"}

\* C34: a row that succeeds in the retry pass has the metrics the main pass
\* records for the same answer: against a service whose answers all carry the
\* same text chunks, every succeeded row, of either pass, holds the metrics
\* of check_rag_enhanced_hit on these chunks.
C34_SameMetricsBothPasses ==
    SameAnswers =>
        \A i \in RowIdx :
            status[i] \in {"Succeeded", "RetrySucceeded"} =>
                row[i].metrics = RagMetrics(HitPayload.nodes)

\* no group task is running and no request is outstanding
NoTaskRunning ==
    \A u \in Users : pc[u] \in {"idle", "done"} /\ request[u] = NoRequest

\* C35: a row is dispatched in the retry pass only after every group of the
\* main pass has finished, with every flagged row processed; the main pass
\* dispatches nothing once a retry dispatch has happened; the retry pass
\* begins, and the result list is put together, only while no task runs.
C35_PassesInSequence ==
    [][/\ (\E i \in RowIdx : retryDisp'[i] > retryDisp[i]) =>
             /\ phase = "retry"
             /\ \A j \in RowIdx : rows[j].flagged => mainOutcome[j] # "none"
             /\ \A u \in Users : request[u] # NoRequest => retryDisp[request[u].row] > 0
       /\ (\E i \in RowIdx : mainDisp'[i] > mainDisp[i]) =>
             /\ phase = "main"
             /\ \A j \in RowIdx : retryDisp[j] = 0
       /\ (phase = "main" /\ phase' # "main") => NoTaskRunning
       /\ (phase # "done" /\ phase' = "done") => NoTaskRunning]_vars

\* both groups ran in the main pass, both were retried, the list is returned
C35_Witness ==
    /\ phase = "done"
    /\ \A i \in RowIdx : mainDisp[i] > 0 /\ retryDisp[i] > 0
    /\ rows[1].user # rows[2].user
    /\ Len(out) = NumRows

\* the rows of questioner u dispatched so far in the main pass, in order
DispatchedOf(u) ==
    SelectSeq(RowSeq, LAMBDA i : rows[i].flagged /\ rows[i].user = u /\ mainDisp[i] > 0)

\* C36: every row is dispatched at most once in the main pass and its
\* question is then appended to its questioner's history, whether the
\* dispatch succeeds or fails; the retry pass appends nothing; at any time
\* the history of a questioner is the list, in order, of the questioner's
\* rows dispatched so far in the main pass.
C36_HistoryIsDispatched ==
    /\ \A i \in RowIdx : mainDisp[i] <= 1
    /\ \A u \in Users : context[u] = DispatchedOf(u)

\* two rows of one questioner, the first failed in the main pass and was
\* dispatched again in the retry pass, the second got a conversation
C36_Witness ==
    /\ rows[1].flagged /\ rows[2].flagged
    /\ rows[1].user = rows[2].user
    /\ mainOutcome[1] = "fail"
    /\ mainOutcome[2] = "ok"
    /\ retryDisp[1] > 0
    /\ context[rows[1].user] = <<1, 2>>

\* C37: in the main pass a group moves on to its next row only out of the
\* sleep of api_delay seconds that follows the row's processing, after a row
\* that failed as after a row that succeeded.
C37_DelayBetweenRows ==
    [][\A u \in Users :
          (phase = "main" /\ phase' = "main" /\ idx'[u] = idx[u] + 1) =>
              /\ pc[u] = "sleep"
              /\ timer[u] = apiDelay
              /\ apiDelay > 0]_vars

\* C38: in the statistics of a finished run the three retry counters count
\* no record twice, retry_failed_count is the number of rows that failed for
\* good in the retry pass and retry_success_count the number of rows that
\* succeeded in it (for a file whose identifiers are distinct).
C38_RetryCounters ==
    (phase = "done" /\ DistinctIds) =>
        LET stats == CalculateStatistics(out) IN
            /\ stats.retry_success_count + stats.retry_failed_count
                  + stats.original_failed_count <= NumRows
            /\ stats.retry_failed_count
                  = Cardinality({i \in RowIdx : status[i] = "TerminallyFailed"})
            /\ stats.retry_success_count
                  = Cardinality({i \in RowIdx : status[i] = "RetrySucceeded"})

\* row q is a flagged row of questioner u
OwnRow(u, q) == q \in RowIdx /\ rows[q].flagged /\ rows[q].user = u

\* C39: whatever the interleaving of the groups, the request sent for a row
\* carries no conversation or the conversation of the row's own questioner,
\* and its message, combined or not, holds only questions of that questioner;
\* the conversation and the history stored for a questioner are its own.
C39_OwnQuestionerOnly ==
    \A u \in Users :
        /\ conversations[u] \in {Absent, u}
        /\ \A k \in 1..Len(context[u]) : OwnRow(u, context[u][k])
        /\ request[u] # NoRequest =>
              /\ OwnRow(u, request[u].row)
              /\ request[u].conversation \in {Absent, u}
              /\ \A k \in 1..Len(request[u].message.questions) :
                    OwnRow(u, request[u].message.questions[k])

\* a request goes out with its questioner's conversation while another
\* questioner has a conversation and a history of its own
C39_Witness ==
    \E u, v \in Users :
        /\ u # v
        /\ request[u] # NoRequest
        /\ request[u].conversation = u
        /\ conversations[v] = v
        /\ context[v] # <<>>

\* C40: a run ends: process_validation returns the list of all rows with no
\* slot held and no request outstanding; a group that waits for a slot gets
\* one, and a slot that is held is given back.
C40_RunTerminates ==
    /\ <>(phase = "done")
    /\ [](phase = "done" =>
            /\ Len(out) = NumRows
            /\ holds = {}
            /\ \A u \in Users : request[u] = NoRequest /\ pc[u] \in {"idle", "done"})
    /\ \A u \in Users : (pc[u] \in {"wait", "rwait"}) ~> (u \in holds)
    /\ \A u \in Users : (u \in holds) ~> (u \notin holds)

\* two groups shared one slot, a row failed and was retried, the run is over
C40_Witness ==
    /\ phase = "done"
    /\ maxConcurrent = 1
    /\ rows[1].user # rows[2].user
    /\ \A i \in RowIdx : mainDisp[i] > 0
    /\ \E i \in RowIdx : retryDisp[i] > 0
    /\ holds = {}
====
